---- MODULE Spec2Model ----
(***************************************************************************)
(* Model of the text-clustering engine of patronus:                        *)
(*   src/src/utils/dataProcessing.js  (kmeans, clusterTexts,               *)
(*                                     performTextClustering, ...)         *)
(*   src/src/utils/textClustering.js  (kMeansWithVectors,                  *)
(*                                     processVectorData, ...)             *)
(*   src/src/pages/UploadPage.js      (TextClusteringPage)                 *)
(*                                                                         *)
(* Numbers.  The code computes in IEEE doubles; the model computes in      *)
(* exact rationals.  A centroid is kept as the pair (coordinate sums,      *)
(* member count), a squared distance as (numerator, count) standing for    *)
(* numerator / count^2.  Math.sqrt is monotone, so comparing squared       *)
(* distances orders the distances as the code's comparison does.           *)
(* Infinity and NaN are modelled as values of their own, with the          *)
(* arithmetic JavaScript gives them.  Indices are 0-based as in the code;  *)
(* TLA+ sequences are 1-based, hence the "+ 1" in every subscript.         *)
(***************************************************************************)
EXTENDS Integers, Sequences, FiniteSets, TLC

----------------------------------------------------------------------------
(* Bounds of the model *)

MaxN == 3          \* most points handed to a k-means run
MaxK == 2          \* largest cluster count asked for directly
MaxCoord == 2      \* largest x coordinate of a point of the pool
MaxDocs == 3       \* most items of an uploaded data set
MaxVecs == 2       \* most points of a vector data set
MaxWords == 2      \* most words of a text handed to preprocessText
MaxTerms == 2      \* most axes of a document vector handed to cosineSimilarity

(* Program constants *)

KmeansMaxIterations == 10    \* kmeans(points, k, maxIterations = 10)
VectorIterations == 50       \* kMeansWithVectors(vectors, k = 5, iterations = 50)

----------------------------------------------------------------------------
(* Values *)

\* A JavaScript array of numbers x, or undefined (a point without a vector).
Vec(x) == [def |-> TRUE, x |-> x]
Missing == [def |-> FALSE, x |-> <<>>]

\* Numbers that can be Infinity or NaN.  A finite squared distance is
\* num / cnt^2.
Fin(num, cnt) == [t |-> "fin", num |-> num, cnt |-> cnt]
Inf == [t |-> "inf", num |-> 0, cnt |-> 1]
NaN == [t |-> "nan", num |-> 0, cnt |-> 1]

\* A centroid: the vector sum / cnt ("mean"; an input point is its own mean,
\* cnt = 1), undefined ("undef"), or an array of NaN as long as sum ("nan").
Mean(sum, cnt) == [kind |-> "mean", sum |-> sum, cnt |-> cnt]
UndefCentroid == [kind |-> "undef", sum |-> <<>>, cnt |-> 1]
NaNCentroid(len) == [kind |-> "nan", sum |-> [d \in 1..len |-> 0], cnt |-> 1]

\* centroids.push(vectors[i]): the centroid is the input value itself.
AsCentroid(v) == IF v.def THEN Mean(v.x, 1) ELSE UndefCentroid

RECURSIVE SeqSum(_)
SeqSum(s) == IF s = <<>> THEN 0 ELSE Head(s) + SeqSum(Tail(s))

Min2(a, b) == IF a < b THEN a ELSE b
Max2(a, b) == IF a > b THEN a ELSE b

----------------------------------------------------------------------------
(* Distances *)

\* sum over the first len coordinates of (a[d] - sum[d]/cnt)^2, times cnt^2
SqNum(a, c, len) ==
    SeqSum([d \in 1..len |-> (c.cnt * a[d] - c.sum[d]) * (c.cnt * a[d] - c.sum[d])])

\* textClustering.js euclideanDistance(a, b), squared
euclideanDistance(a, c) ==
    IF ~a.def \/ c.kind = "undef" \/ Len(a.x) # Len(c.sum) THEN Inf
    ELSE IF c.kind = "nan" /\ Len(a.x) > 0 THEN NaN
    ELSE Fin(SqNum(a.x, c, Len(a.x)), c.cnt)

\* dataProcessing.js euclideanDist(a, b), squared: a.reduce over a's
\* coordinates; a missing b[i] gives NaN.
euclideanDist(a, c) ==
    IF c.kind = "nan" \/ Len(c.sum) < Len(a.x) THEN (IF Len(a.x) = 0 THEN Fin(0, 1) ELSE NaN)
    ELSE Fin(SqNum(a.x, c, Len(a.x)), c.cnt)

Dist(fn, a, c) == IF fn = "kmeans" THEN euclideanDist(a, c) ELSE euclideanDistance(a, c)

\* a < b on numbers (false when either is NaN)
NumLess(a, b) ==
    /\ a.t = "fin"
    /\ \/ b.t = "inf"
       \/ b.t = "fin" /\ a.num * b.cnt * b.cnt < b.num * a.cnt * a.cnt

\* a === b on numbers (NaN equals nothing)
NumEq(a, b) ==
    \/ a.t = "inf" /\ b.t = "inf"
    \/ a.t = "fin" /\ b.t = "fin" /\ a.num * b.cnt * b.cnt = b.num * a.cnt * a.cnt

\* Math.min(...ds) for a non-empty list: NaN if any argument is NaN
MathMin(ds) ==
    IF \E i \in 1..Len(ds) : ds[i].t = "nan" THEN NaN
    ELSE ds[CHOOSE i \in 1..Len(ds) :
                /\ \A j \in 1..Len(ds) : ~NumLess(ds[j], ds[i])
                /\ \A j \in 1..(i - 1) : NumLess(ds[i], ds[j])]

\* ds.lastIndexOf(x): the last index whose entry === x, or -1
LastIndexOf(ds, x) ==
    IF \E i \in 1..Len(ds) : NumEq(ds[i], x)
    THEN (CHOOSE i \in 1..Len(ds) :
                /\ NumEq(ds[i], x)
                /\ \A j \in (i + 1)..Len(ds) : ~NumEq(ds[j], x)) - 1
    ELSE -1

\* ds.indexOf(x): the first index whose entry === x, or -1
IndexOf(ds, x) ==
    IF \E i \in 1..Len(ds) : NumEq(ds[i], x)
    THEN (CHOOSE i \in 1..Len(ds) :
                /\ NumEq(ds[i], x)
                /\ \A j \in 1..(i - 1) : ~NumEq(ds[j], x)) - 1
    ELSE -1

----------------------------------------------------------------------------
(* k-means++ seeding: kmeans lines 721-743, kMeansWithVectors lines 16-39 *)

\* distances: each point's distance to its nearest chosen centroid (squared
\* here; the code squares it when it uses it).  Centroids are input points
\* during seeding, so a finite entry has cnt = 1 and num is the square.
NearestDistances(fn, points, cents) ==
    [i \in 1..Len(points) |->
        MathMin([c \in 1..Len(cents) |-> Dist(fn, points[i], cents[c])])]

\* sumDistSquared
SumDistSquared(d2) ==
    IF \E i \in 1..Len(d2) : d2[i].t = "nan" THEN NaN
    ELSE IF \E i \in 1..Len(d2) : d2[i].t = "inf" THEN Inf
    ELSE Fin(SeqSum([i \in 1..Len(d2) |-> d2[i].num]), 1)

\* cumulative squared distance d_0^2 + ... + d_j^2 (j 0-based), finite case
Cumulative(d2, j) == SeqSum([i \in 1..(j + 1) |-> d2[i].num])

\* The draws r = Math.random() * sumDistSquared, Math.random() in [0, 1).
\* r is kept doubled (num = 2r) so that half-integers are values.  With
\* integer squares the loop's outcome depends only on the interval
\* (cum_(j-1), cum_j] that r lies in; the draws taken are 0, every interval's
\* interior point cum_j - 1/2 and every end point cum_j below the sum.
\* 0 * Infinity is NaN, x * Infinity is Infinity.
RDraws(d2) ==
    LET s == SumDistSquared(d2) IN
    IF s.t = "nan" THEN {NaN}
    ELSE IF s.t = "inf" THEN {Inf, NaN}
    ELSE {Fin(0, 1)} \cup
         {Fin(v, 1) : v \in {w \in UNION {{2 * Cumulative(d2, j) - 1, 2 * Cumulative(d2, j)} :
                                             j \in 0..(Len(d2) - 1)} :
                                w > 0 /\ w < 2 * s.num}}

\* r > 0
Positive(r) == r.t = "inf" \/ (r.t = "fin" /\ r.num > 0)

\* r -= distances[j] * distances[j]   (r doubled).  A finite r minus
\* Infinity is -Infinity, which like any value <= 0 ends the loop: Fin(-1).
Subtract(r, d) ==
    IF r.t = "nan" \/ d.t = "nan" THEN NaN
    ELSE IF r.t = "inf" THEN (IF d.t = "inf" THEN NaN ELSE Inf)
    ELSE IF d.t = "inf" THEN Fin(-1, 1)
    ELSE Fin(r.num - 2 * d.num, 1)

\* while (r > 0 && j < n) { r -= distances[j] * distances[j]; j++; }
RECURSIVE SeedWalk(_, _, _)
SeedWalk(r, j, d2) ==
    IF Positive(r) /\ j < Len(d2)
    THEN SeedWalk(Subtract(r, d2[j + 1]), j + 1, d2)
    ELSE j

\* the index pushed: Math.min(j, n - 1)
SeedIndex(r, d2) == Min2(SeedWalk(r, 0, d2), Len(d2) - 1)

----------------------------------------------------------------------------
(* One iteration of the loop: kmeans lines 749-778, kMeansWithVectors 46-79 *)

\* the distances of point i (1-based) to every centroid
CentroidDistances(fn, points, cents, i) ==
    [c \in 1..Len(cents) |-> Dist(fn, points[i], cents[c])]

\* closestCentroid = dists.indexOf(Math.min(...dists))
ClosestCentroidOneBased(fn, points, cents, i) ==
    LET dists == CentroidDistances(fn, points, cents, i)
    IN IndexOf(dists, MathMin(dists)) + 1
\* ties between all centroids broken by the position of the point
ClosestCentroidSpreadsTies(fn, points, cents, i) ==
    LET dists == CentroidDistances(fn, points, cents, i)
    IN IF \A c \in 1..Len(dists) : NumEq(dists[c], dists[1])
       THEN (i - 1) % Len(cents)
       ELSE IndexOf(dists, MathMin(dists))
ClosestCentroid(fn, points, cents, i) ==
    LET dists == CentroidDistances(fn, points, cents, i)
    IN IndexOf(dists, MathMin(dists))

\* the assignment sweep: assignments[i] becomes closestCentroid
AssignStep(fn, points, cents) ==
    [i \in 1..Len(points) |-> ClosestCentroid(fn, points, cents, i)]

\* points.filter((_, i) => assignments[i] === j), as the list of indices
RECURSIVE AssignedFrom(_, _, _)
AssignedFrom(asg, j, i) ==
    IF i > Len(asg) THEN <<>>
    ELSE IF asg[i] = j THEN <<i>> \o AssignedFrom(asg, j, i + 1)
    ELSE AssignedFrom(asg, j, i + 1)
Assigned(asg, j) == AssignedFrom(asg, j, 1)

\* the coordinate-wise sum of the points at the indices idx, over dims axes
SumVector(points, idx, dims) ==
    [d \in 1..dims |-> SeqSum([m \in 1..Len(idx) |-> points[idx[m]].x[d]])]

\* kMeansWithVectors lines 63-77 raise a TypeError when the first assigned
\* vector is undefined (assignedVectors[0].length), or when dims > 0 and any
\* assigned vector is undefined (vector[d]).
UpdateThrows(fn, points, asg, j) ==
    LET idx == Assigned(asg, j) IN
    /\ fn = "kMeansWithVectors"
    /\ idx # <<>>
    /\ \/ ~points[idx[1]].def
       \/ /\ Len(points[idx[1]].x) > 0
          /\ \E m \in 1..Len(idx) : ~points[idx[m]].def

\* the new value of centroids[j]: unchanged when no point is assigned, else
\* the mean of the assigned points over dims axes, dims being points[0].length
\* in kmeans and assignedVectors[0].length in kMeansWithVectors.  An assigned
\* vector shorter than dims contributes undefined, which makes the sum NaN.
UpdateCentroidKeepsSeed(fn, points, asg, j, old) == old
UpdateCentroidResetsEmpty(fn, points, asg, j, old) ==
    LET idx == Assigned(asg, j)
        dims == Len(points[1].x)
    IN IF idx = <<>> THEN Mean([d \in 1..dims |-> 0], 1)
       ELSE Mean(SumVector(points, idx, dims), Len(idx))
UpdateCentroid(fn, points, asg, j, old) ==
    LET idx == Assigned(asg, j)
        dims == IF fn = "kmeans" THEN Len(points[1].x) ELSE Len(points[idx[1]].x)
    IN IF idx = <<>> THEN old
       ELSE IF \E m \in 1..Len(idx) : Len(points[idx[m]].x) < dims THEN NaNCentroid(dims)
       ELSE Mean(SumVector(points, idx, dims), Len(idx))

\* for (let j = 0; j < k; j++) ...   (cluster ids 0-based)
UpdateStep(fn, points, asg, cents, k) ==
    [c \in 1..Len(cents) |->
        IF c <= k THEN UpdateCentroid(fn, points, asg, c - 1, cents[c]) ELSE cents[c]]

----------------------------------------------------------------------------
(* State *)

VARIABLES
    fn,           \* the clusterer running: "kmeans" or "kMeansWithVectors"
    points,       \* its first argument (points / vectors)
    k,            \* its second argument
    maxIter,      \* its third argument (maxIterations / iterations)
    centroids,    \* const centroids
    distances,    \* const distances of the last seeding round (squared)
    r,            \* the draw of the last seeding round (doubled)
    j,            \* the loop index j after the last seeding round's while loop
    assignments,  \* let assignments
    iterations,   \* let iterations / iterations_count
    changed,      \* let changed
    pc            \* where the call is: "call", "seed", "loop", "returned", "threw"

kmVars == <<fn, points, k, maxIter, centroids, distances, r, j,
            assignments, iterations, changed, pc>>

\* A call of one of the exported clustering functions
VARIABLES
    call,              \* the function called, "none" before the first call
    input,             \* its argument
    result,            \* what it returned, or Raised
    similarityMatrix,  \* const similarityMatrix, <<>> if not built
    mdsMatrix,         \* the matrix handed to simpleMDS, <<>> if it was not called
    kmeansArgs,        \* the k and the number of points handed to kmeans or
                       \* kMeansWithVectors, NotClustered if it was not called
    termsList,         \* const termsList, <<>> if not built
    docVectors         \* const docVectors, <<>> if not built

fnVars == <<call, input, result, similarityMatrix, mdsMatrix, kmeansArgs,
            termsList, docVectors>>

\* TextClusteringPage
VARIABLES
    pageData,          \* the prop data
    useWeaviate,       \* useState(true)
    loading,           \* useState(true)
    clusteringData,    \* useState(null)
    error,             \* useState(null)
    scatterData,       \* useState(null): "null" or "set"
    pending,           \* the effects due to run: "load" (deps data, useWeaviate),
                       \* "prepare" (deps clusteringData, ...)
    vectorError        \* whether the last run of the first effect caught an error
                       \* of processVectorData in its first branch

pageVars == <<pageData, useWeaviate, loading, clusteringData, error, scatterData,
              pending, vectorError>>

\* One of the helper functions applied on its own
VARIABLES
    applied,           \* the function applied, "none" before
    args,              \* its arguments
    value              \* the values it gave, in order

pureVars == <<applied, args, value>>

\* UploadPage
VARIABLES
    rawData,              \* useState(null): the parsed file, NoArray for null
    contentField,         \* fieldMappings.content, "" when not mapped
    shouldUseWeaviate,    \* useState(true)
    weaviateStatus,       \* useState(false): whether Weaviate is connected
    weaviateUploadResult, \* let weaviateUploadResult in processData (success)
    stage,                \* where processData is: "idle", the await it is
                          \* suspended at, "done" or "failed"
    analysisResults,      \* the five let ...Results of processData
    thrown,               \* the analyses whose await rejected in this run
    delivered,            \* the arguments of the calls of onDataUpload
    uploadLoading,        \* useState(false) loading of UploadPage
    uploadError,          \* useState(null) error of UploadPage
    progress              \* useState(0)

uploadVars == <<rawData, contentField, shouldUseWeaviate, weaviateStatus,
                weaviateUploadResult, stage, analysisResults, thrown, delivered,
                uploadLoading, uploadError, progress>>

vars == <<kmVars, fnVars, pageVars, pureVars, uploadVars>>

----------------------------------------------------------------------------
(* Inputs of a direct call of a clusterer *)

SeqsUpTo(S, n) == UNION {[1..m -> S] : m \in 0..n}

\* well-formed points: 2-D, integer coordinates; the points of the x axis up
\* to MaxCoord and one point off the axis (so that ties between centroids and
\* coincident points both occur)
PointPool == {Vec(<<x, 0>>) : x \in 0..MaxCoord} \cup {Vec(<<0, 1>>)}

\* twelve distinct points on a line on which Lloyd's iteration with k = 2
\* moves the boundary between the clusters by one or two points per sweep
SlowInput ==
    [i \in 1..12 |-> Vec(<<(<<0, 26, 5, 29, 33, 37, 43, 46, 48, 53, 98, 106>>)[i], 0>>)]

\* the points of the longest lists: those of the x axis
AxisPool == {Vec(<<x, 0>>) : x \in 0..MaxCoord}

KmInputs == SeqsUpTo(PointPool, MaxN - 1) \cup [1..MaxN -> AxisPool] \cup {SlowInput}

\* the iteration cap each clusterer runs with: kmeans is called with 10
\* (performTextClustering) or with its default 10 (clusterTexts),
\* kMeansWithVectors with its default 50 (processVectorData)
CapOf(f) == IF f = "kmeans" THEN KmeansMaxIterations ELSE VectorIterations

\* no call of an exported function has been made
NoResult == [kind |-> "none", points |-> <<>>, clusters |-> <<>>, clusterCount |-> 0]
NoInput == [arr |-> FALSE, items |-> <<>>]

NotClustered == [called |-> FALSE, k |-> 0, n |-> 0]
Clustered(kk, n) == [called |-> TRUE, k |-> kk, n |-> n]

FnBlank ==
    /\ kmeansArgs = NotClustered
    /\ termsList = <<>>
    /\ docVectors = <<>>
    /\ call = "none"
    /\ input = NoInput
    /\ result = NoResult
    /\ similarityMatrix = <<>>
    /\ mdsMatrix = <<>>

\* no helper function has been applied
NoArgs == [fn |-> "none"]

PureBlank ==
    /\ applied = "none"
    /\ args = NoArgs
    /\ value = <<>>

\* the order of the five try blocks of processData, lines 275-348
AnalysisOrder == <<"topicModeling", "sentimentAnalysis", "timeSeries",
                   "textClustering", "hallucination">>
AnalysisNames == {AnalysisOrder[i] : i \in 1..Len(AnalysisOrder)}

\* a let that was declared and not assigned; the value null
Unset == [kind |-> "undefined"]
Null == [kind |-> "null"]

\* UploadPage is not mounted
UploadBlank ==
    /\ rawData = [arr |-> FALSE, items |-> <<>>]
    /\ contentField = ""
    /\ shouldUseWeaviate = FALSE
    /\ weaviateStatus = FALSE
    /\ weaviateUploadResult = [success |-> FALSE]
    /\ stage = "unmounted"
    /\ analysisResults = [a \in AnalysisNames |-> Unset]
    /\ thrown = {}
    /\ delivered = <<>>
    /\ uploadLoading = FALSE
    /\ uploadError = "null"
    /\ progress = 0

\* no page is mounted
PageBlank ==
    /\ pageData = NoInput
    /\ useWeaviate = TRUE
    /\ loading = TRUE
    /\ clusteringData = NoResult
    /\ error = "null"
    /\ scatterData = "null"
    /\ pending = {}
    /\ vectorError = FALSE

KmBlank ==
    /\ centroids = <<>>
    /\ distances = <<>>
    /\ r = Fin(0, 1)
    /\ j = 0
    /\ assignments = <<>>
    /\ iterations = 0
    /\ changed = FALSE

InitKM ==
    /\ FnBlank
    /\ PureBlank
    /\ UploadBlank
    /\ PageBlank
    /\ fn \in {"kmeans", "kMeansWithVectors"}
    /\ points \in KmInputs
    /\ k \in 1..MaxK
    /\ maxIter = CapOf(fn)
    /\ pc = "call"
    /\ KmBlank

----------------------------------------------------------------------------
(* The clusterers, step by step *)

\* kMeansWithVectors lines 12-14: throw when !vectors or vectors.length < k.
\* kmeans has no such check; its points[0].length (line 719) raises a
\* TypeError on an empty list.
CallThrows(f, pts, kk) ==
    IF f = "kMeansWithVectors" THEN Len(pts) < kk ELSE Len(pts) = 0

\* entry and the first centroid: points[Math.floor(Math.random() * n)]
KmCall ==
    /\ pc = "call"
    /\ UNCHANGED <<fnVars, pageVars, pureVars, uploadVars>>
    /\ IF CallThrows(fn, points, k)
       THEN /\ pc' = "threw"
            /\ UNCHANGED centroids
       ELSE /\ \E i \in 1..Len(points) : centroids' = <<AsCentroid(points[i])>>
            /\ pc' = "seed"
    /\ UNCHANGED <<fn, points, k, maxIter, distances, r, j, assignments, iterations, changed>>

\* one round of for (let i = 1; i < k; i++): the next centroid
KmSeed ==
    /\ pc = "seed"
    /\ UNCHANGED <<fnVars, pageVars, pureVars, uploadVars>>
    /\ Len(centroids) < k
    /\ distances' = NearestDistances(fn, points, centroids)
    /\ r' \in RDraws(distances')
    /\ j' = SeedWalk(r', 0, distances')
    /\ centroids' = Append(centroids, AsCentroid(points[SeedIndex(r', distances') + 1]))
    /\ UNCHANGED <<fn, points, k, maxIter, assignments, iterations, changed, pc>>

\* let assignments = new Array(n).fill(0); iterations = 0; changed = true
KmLoopInit ==
    /\ pc = "seed"
    /\ UNCHANGED <<fnVars, pageVars, pureVars, uploadVars>>
    /\ Len(centroids) >= k
    /\ assignments' = [i \in 1..Len(points) |-> 0]
    /\ iterations' = 0
    /\ changed' = TRUE
    /\ pc' = "loop"
    /\ UNCHANGED <<fn, points, k, maxIter, centroids, distances, r, j>>

\* while (changed && iterations < maxIterations)
LoopContinuesPastCap(ch, it, cap) == ch /\ it <= cap
LoopContinuesUnchanged(ch, it, cap) == it < cap
LoopContinues(ch, it, cap) == ch /\ it < cap

\* one pass of the body of the while loop
KmIterate ==
    /\ pc = "loop"
    /\ UNCHANGED <<fnVars, pageVars, pureVars, uploadVars>>
    /\ LoopContinues(changed, iterations, maxIter)
    /\ iterations' = iterations + 1
    /\ assignments' = AssignStep(fn, points, centroids)
    /\ changed' = (assignments' # assignments)
    /\ IF \E c \in 0..(k - 1) : UpdateThrows(fn, points, assignments', c)
       THEN pc' = "threw" /\ UNCHANGED centroids
       ELSE pc' = "loop" /\ centroids' = UpdateStep(fn, points, assignments', centroids, k)
    /\ UNCHANGED <<fn, points, k, maxIter, distances, r, j>>

\* return { centroids, assignments }
KmReturn ==
    /\ pc = "loop"
    /\ UNCHANGED <<fnVars, pageVars, pureVars, uploadVars>>
    /\ ~LoopContinues(changed, iterations, maxIter)
    /\ pc' = "returned"
    /\ UNCHANGED <<fn, points, k, maxIter, centroids, distances, r, j,
                   assignments, iterations, changed>>

NextKM == KmCall \/ KmSeed \/ KmLoopInit \/ KmIterate \/ KmReturn

SpecKM == InitKM /\ [][NextKM]_vars

----------------------------------------------------------------------------
(* The clusterers as functions: every outcome a call can have.  The steps   *)
(* are the operators the step-by-step actions above use.                    *)

Threw == [threw |-> TRUE, centroids |-> <<>>, assignments |-> <<>>]
Returned(cents, asg) == [threw |-> FALSE, centroids |-> cents, assignments |-> asg]

\* the centroid lists the seeding rounds can end with, from the list so far
RECURSIVE Seedings(_, _, _, _)
Seedings(f, pts, kk, cents) ==
    IF Len(cents) >= kk THEN {cents}
    ELSE LET d2 == NearestDistances(f, pts, cents)
         IN UNION {Seedings(f, pts, kk, Append(cents, AsCentroid(pts[SeedIndex(rr, d2) + 1]))) :
                      rr \in RDraws(d2)}

\* the while loop, run to its end
RECURSIVE RunLoop(_, _, _, _, _, _, _, _)
RunLoop(f, pts, kk, cap, cents, asg, it, ch) ==
    IF ~LoopContinues(ch, it, cap) THEN Returned(cents, asg)
    ELSE LET na == AssignStep(f, pts, cents)
         IN IF \E c \in 0..(kk - 1) : UpdateThrows(f, pts, na, c) THEN Threw
            ELSE RunLoop(f, pts, kk, cap, UpdateStep(f, pts, na, cents, kk), na, it + 1, na # asg)

KmOutcomes(f, pts, kk, cap) ==
    IF CallThrows(f, pts, kk) THEN {Threw}
    ELSE {RunLoop(f, pts, kk, cap, cents, [i \in 1..Len(pts) |-> 0], 0, TRUE) :
            cents \in UNION {Seedings(f, pts, kk, <<AsCentroid(pts[i])>>) : i \in 1..Len(pts)}}

----------------------------------------------------------------------------
(* Text: a string is modelled as the list of its whitespace-separated       *)
(* words, a word as the list of its characters.  The empty list is the      *)
(* empty (or blank) string.                                                 *)

W_the == <<"t", "h", "e">>
W_Cats == <<"C", "a", "t", "s">>
W_dog == <<"d", "o", "g">>
W_length == <<"l", "e", "n", "g", "t", "h">>
W_sings == <<"s", "i", "n", "g", "s">>
W_bed == <<"b", "e", "d">>

\* String.prototype.toLowerCase on the characters of the model
LowerChar(ch) == IF ch = "C" THEN "c" ELSE ch
ToLowerCase(w) == [i \in 1..Len(w) |-> LowerChar(w[i])]

\* /^[a-z0-9]+$/i on a lower-cased token
AlnumChars == {"a", "b", "c", "d", "e", "g", "h", "i", "l", "n", "o", "s", "t"}
IsAlnum(w) == Len(w) > 0 /\ \A i \in 1..Len(w) : w[i] \in AlnumChars

\* the entries of defaultStopwords that a word of the model can equal
Stopwords == {W_the}

EndsWith(w, suf) ==
    /\ Len(w) >= Len(suf)
    /\ SubSeq(w, Len(w) - Len(suf) + 1, Len(w)) = suf

\* mockPorterStemmer.simpleRules, in order
SimpleRules ==
    << [suffix |-> <<"i", "n", "g">>, replacement |-> <<>>],
       [suffix |-> <<"e", "d">>, replacement |-> <<>>],
       [suffix |-> <<"s">>, replacement |-> <<>>],
       [suffix |-> <<"e", "s">>, replacement |-> <<>>],
       [suffix |-> <<"l", "y">>, replacement |-> <<>>],
       [suffix |-> <<"i", "e", "s">>, replacement |-> <<"y">>] >>

\* mockPorterStemmer.stem: the first rule whose suffix matches is applied
Stem(w) ==
    LET low == ToLowerCase(w)
        hits == {i \in 1..Len(SimpleRules) : EndsWith(low, SimpleRules[i].suffix)}
    IN IF hits = {} THEN low
       ELSE LET i == CHOOSE h \in hits : \A g \in hits : h <= g
            IN SubSeq(low, 1, Len(low) - Len(SimpleRules[i].suffix)) \o SimpleRules[i].replacement

\* the indices of a sequence, as a sequence
AllIndicesOf(sq) == [i \in 1..Len(sq) |-> i]

RECURSIVE FilterSeq(_, _)
FilterSeq(sq, keep) ==
    IF sq = <<>> THEN <<>>
    ELSE IF Head(sq) \in keep THEN <<Head(sq)>> \o FilterSeq(Tail(sq), keep)
    ELSE FilterSeq(Tail(sq), keep)

Range(sq) == {sq[i] : i \in 1..Len(sq)}

\* preprocessText: lower-case, tokenize, drop short tokens, stopwords and
\* non-alphanumeric tokens, stem; the result is the list of stems that the
\* code joins with ' '
preprocessText(text) ==
    LET tokens == [i \in 1..Len(text) |-> ToLowerCase(text[i])]
        kept == FilterSeq(tokens, {t \in Range(tokens) :
                                      Len(t) > 2 /\ t \notin Stopwords /\ IsAlnum(t)})
    IN [i \in 1..Len(kept) |-> Stem(kept[i])]

\* text.split(/\s+/).filter(Boolean) of a joined list of stems
SplitWords(joined) == FilterSeq(joined, {w \in Range(joined) : w # <<>>})

\* processed.trim() !== ''
NonBlank(joined) == SplitWords(joined) # <<>>

----------------------------------------------------------------------------
(* MockTfIdf (the TfIdf used when natural.TfIdf is not available) *)

\* the sequence without its repeated entries, in first-seen order
RECURSIVE Dedupe(_)
Dedupe(sq) ==
    IF sq = <<>> THEN <<>>
    ELSE LET init == Dedupe(SubSeq(sq, 1, Len(sq) - 1))
             last == sq[Len(sq)]
         IN IF last \in Range(init) THEN init ELSE Append(init, last)

RECURSIVE Concat(_)
Concat(sqs) == IF sqs = <<>> THEN <<>> ELSE Head(sqs) \o Concat(Tail(sqs))

\* Object.keys(this.terms): the words of the corpus in first-seen order
\* (no word of the model is an integer-like key)
TermKeys(docs) == Dedupe(Concat([i \in 1..Len(docs) |-> SplitWords(docs[i])]))

\* this.terms[term][docIndex]   (docIndex 0-based)
TermCount(docs, term, docIndex) ==
    Len(FilterSeq(SplitWords(docs[docIndex + 1]), {term}))

\* entries [term, n] sorted by descending n, equal n keeping their order
\* (Array.prototype.sort is stable)
RECURSIVE SortDesc(_)
SortDesc(es) ==
    IF es = <<>> THEN <<>>
    ELSE LET m == CHOOSE i \in 1..Len(es) :
                      /\ \A q \in 1..Len(es) : es[q].n <= es[i].n
                      /\ \A q \in 1..(i - 1) : es[q].n < es[i].n
         IN <<es[m]>> \o SortDesc(SubSeq(es, 1, m - 1) \o SubSeq(es, m + 1, Len(es)))

\* listTerms(docIndex): the terms of the document with their weight, by
\* descending weight.  The weight is n / (length of the document); within
\* one document the order by weight is the order by n.
listTerms(docs, docIndex) ==
    IF docIndex >= Len(docs) THEN <<>>
    ELSE LET keys == TermKeys(docs)
             mine == FilterSeq(keys, {t \in Range(keys) : TermCount(docs, t, docIndex) > 0})
         IN SortDesc([i \in 1..Len(mine) |->
                        [term |-> mine[i], n |-> TermCount(docs, mine[i], docIndex)]])

----------------------------------------------------------------------------
(* Weights and similarities: exact values.  A weight is a ratio num / cnt  *)
(* in lowest terms; a similarity is a ratio, NaN, a signed square root     *)
(* sgn * sqrt(|num| / cnt) that is no ratio, or 1 minus such a root.       *)

Abs(n) == IF n < 0 THEN -n ELSE n

RECURSIVE Gcd(_, _)
Gcd(a, b) == IF b = 0 THEN a ELSE Gcd(b, a % b)

Ratio(n, d) ==
    LET g == Gcd(Abs(n), d) IN [t |-> "fin", num |-> n \div g, cnt |-> d \div g]

RatioAdd(a, b) ==
    LET g == Gcd(a.cnt, b.cnt)
    IN Ratio(a.num * (b.cnt \div g) + b.num * (a.cnt \div g), (a.cnt \div g) * b.cnt)
RatioMul(a, b) == Ratio(a.num * b.num, a.cnt * b.cnt)

RatioNeg(a) == Ratio(-a.num, a.cnt)
RatioSub(a, b) == RatioAdd(a, RatioNeg(b))
RatioAbs(a) == Ratio(Abs(a.num), a.cnt)
RatioLess(a, b) == a.num * b.cnt < b.num * a.cnt

\* a / b for b # 0
RatioDiv(a, b) ==
    RatioMul(a, Ratio(IF b.num < 0 THEN -b.cnt ELSE b.cnt, Abs(b.num)))

RECURSIVE RatioSum(_)
RatioSum(sq) == IF sq = <<>> THEN Ratio(0, 1) ELSE RatioAdd(Head(sq), RatioSum(Tail(sq)))

\* the integer square root, and whether n is a square
ISqrt(n) == CHOOSE q \in 0..n : q * q <= n /\ (q + 1) * (q + 1) > n
IsSquare(n) == ISqrt(n) * ISqrt(n) = n

\* sgn * Math.sqrt(q) for a ratio q >= 0
SignedRoot(sgn, q) ==
    IF IsSquare(q.num) /\ IsSquare(q.cnt) THEN Ratio(sgn * ISqrt(q.num), ISqrt(q.cnt))
    ELSE [t |-> "sqrt", num |-> sgn * q.num, cnt |-> q.cnt]

\* 1 - x
OneMinus(x) ==
    IF x.t = "fin" THEN Ratio(x.cnt - x.num, x.cnt)
    ELSE IF x.t = "sqrt" THEN [x EXCEPT !.t = "1-sqrt"]
    ELSE IF x.t = "1-sqrt" THEN [x EXCEPT !.t = "sqrt"]
    ELSE NaN

\* dotProduct / (Math.sqrt(normA) * Math.sqrt(normB)) without the test of
\* the norms: 0 / 0 is NaN
cosineSimilarityUnguarded(vecA, vecB) ==
    LET n == Len(vecA)
        dotProduct == RatioSum([i \in 1..n |-> RatioMul(vecA[i], vecB[i])])
        normA == RatioSum([i \in 1..n |-> RatioMul(vecA[i], vecA[i])])
        normB == RatioSum([i \in 1..n |-> RatioMul(vecB[i], vecB[i])])
    IN IF Len(vecB) < n \/ normA.num = 0 \/ normB.num = 0 THEN NaN
       ELSE SignedRoot(IF dotProduct.num < 0 THEN -1 ELSE 1,
                       RatioMul(RatioMul(dotProduct, dotProduct),
                                Ratio(normA.cnt * normB.cnt, normA.num * normB.num)))

\* cosineSimilarity(vecA, vecB) of two arrays of weights (lines 657-671).
\* The loop runs over the indices of vecA; an index vecB does not have
\* reads undefined, which makes dotProduct and normB NaN.
cosineSimilarity(vecA, vecB) ==
    LET n == Len(vecA)
        short == Len(vecB) < n
        m == Min2(n, Len(vecB))
        dotProduct == RatioSum([i \in 1..m |-> RatioMul(vecA[i], vecB[i])])
        normA == RatioSum([i \in 1..n |-> RatioMul(vecA[i], vecA[i])])
        normB == RatioSum([i \in 1..m |-> RatioMul(vecB[i], vecB[i])])
    IN IF normA.num = 0 THEN Ratio(0, 1)
       ELSE IF short THEN NaN
       ELSE IF normB.num = 0 THEN Ratio(0, 1)
       ELSE SignedRoot(IF dotProduct.num < 0 THEN -1 ELSE 1,
                       RatioMul(RatioMul(dotProduct, dotProduct),
                                Ratio(normA.cnt * normB.cnt, normA.num * normB.num)))

\* MockTfIdf.tfidf(term, docIndex): the count of the term in the document
\* over the number of pieces of docs[docIndex].split(/\s+/), which is 1 for
\* the empty document
tfidf(docs, term, docIndex) ==
    Ratio(TermCount(docs, term, docIndex), Max2(Len(SplitWords(docs[docIndex + 1])), 1))

\* simpleMDS line 695: const targetDist = 1 - distanceMatrix[i][j]
MdsTargetDist(distanceMatrix, i, q) == OneMinus(distanceMatrix[i][q])

\* simpleMDS lines 683 and 701: learningRate = 0.1, the threshold 1e-6
MdsLearningRate == Ratio(1, 10)
MdsEpsilon == Ratio(1, 1000000)

\* lines 690-694: Math.sqrt of the sum of the squared differences of two 2-D
\* points (the square root of one square is the absolute value)
EmbeddingDist(p, q) ==
    LET dx == RatioSub(p[1], q[1])
        dy == RatioSub(p[2], q[2])
    IN IF dy.num = 0 THEN RatioAbs(dx)
       ELSE IF dx.num = 0 THEN RatioAbs(dy)
       ELSE SignedRoot(1, RatioAdd(RatioMul(dx, dx), RatioMul(dy, dy)))

\* the update that moves point i only: points[j][d] += grad left out
MdsPairUpdateMovesOne(pts, distanceMatrix, i, q) ==
    LET embeddingDist == EmbeddingDist(pts[i], pts[q])
        diff == RatioSub(embeddingDist, MdsTargetDist(distanceMatrix, i, q))
        grad(d) == RatioMul(RatioMul(MdsLearningRate, diff),
                            RatioDiv(RatioSub(pts[i][d], pts[q][d]), embeddingDist))
    IN IF RatioLess(embeddingDist, MdsEpsilon) THEN pts
       ELSE [m \in 1..Len(pts) |->
               IF m = i THEN [d \in 1..2 |-> RatioSub(pts[i][d], grad(d))]
               ELSE pts[m]]

\* lines 689-708, the body of the loops for the pair (i, q) (1-based here):
\* the points after it
MdsPairUpdate(pts, distanceMatrix, i, q) ==
    LET embeddingDist == EmbeddingDist(pts[i], pts[q])
        diff == RatioSub(embeddingDist, MdsTargetDist(distanceMatrix, i, q))
        grad(d) == RatioMul(RatioMul(MdsLearningRate, diff),
                            RatioDiv(RatioSub(pts[i][d], pts[q][d]), embeddingDist))
    IN IF RatioLess(embeddingDist, MdsEpsilon) THEN pts
       ELSE [m \in 1..Len(pts) |->
               IF m = i THEN [d \in 1..2 |-> RatioSub(pts[i][d], grad(d))]
               ELSE IF m = q THEN [d \in 1..2 |-> RatioAdd(pts[q][d], grad(d))]
               ELSE pts[m]]

----------------------------------------------------------------------------
(* Clustering results *)

\* keyTerms entries that are not terms of a document
EmptyClusterTerm == <<"Empty cluster">>
NoKeyTermsTerm == <<"No key terms found">>

\* the first n entries: Array.prototype.slice(0, n)
Slice(sq, n) == SubSeq(sq, 1, Min2(n, Len(sq)))

\* generateMockClusteringData (dataProcessing.js): five clusters, cluster i
\* with sizes[i] points (each size is Math.floor(Math.random() * 10) + 5),
\* the texts taken in turn from the seven canned texts of the cluster.  A
\* canned text is named by its cluster and its position.
CannedText(c, t) == << <<"canned text">>, <<c>>, <<t>> >>
MockClusterTerms(c) == << <<"canned terms">>, <<c>> >>

MockPoints(sizes) ==
    LET start(c) == SeqSum([q \in 1..c |-> sizes[q]])     \* points before cluster c (0-based)
        total == start(Len(sizes))
        clusterOf(p) == CHOOSE c \in 0..(Len(sizes) - 1) : start(c) <= p /\ p < start(c + 1)
    IN [p1 \in 1..total |->
          LET c == clusterOf(p1 - 1) IN
          [id |-> p1 - 1, text |-> CannedText(c, (p1 - 1 - start(c)) % 7), cluster |-> c]]

MockResult(sizes) ==
    [kind |-> "mock",
     points |-> MockPoints(sizes),
     clusters |-> [c1 \in 1..Len(sizes) |->
                     [id |-> c1 - 1, size |-> sizes[c1], keyTerms |-> MockClusterTerms(c1 - 1),
                      hasExample |-> TRUE, example |-> CannedText(c1 - 1, 0)]],
     clusterCount |-> Len(sizes)]

\* the sizes drawn for the five clusters, each Math.floor(Math.random() * 10) + 5:
\* all least, all greatest, and a mixed draw
MockSizeSamples == {<<5, 5, 5, 5, 5>>, <<14, 14, 14, 14, 14>>, <<5, 14, 9, 7, 12>>}

generateMockClusteringData == {MockResult(sizes) : sizes \in MockSizeSamples}

----------------------------------------------------------------------------
(* clusterTexts (dataProcessing.js 1273-1538) *)

\* data: an array of items, or something that is no array (null, an object)
ArrayOf(items) == [arr |-> TRUE, items |-> items]
NoArray == [arr |-> FALSE, items |-> <<>>]

\* an item: null (or no object), or an object with its content
NullItem == [obj |-> FALSE, content |-> <<>>]
Item(text) == [obj |-> TRUE, content |-> text]

\* lines 1286-1294: the non-blank texts of the items that are objects
CtTexts(data) ==
    LET idx == FilterSeq(AllIndicesOf(data.items),
                         {i \in 1..Len(data.items) :
                             data.items[i].obj /\ data.items[i].content # <<>>})
    IN [q \in 1..Len(idx) |-> data.items[idx[q]].content]

\* lines 1305-1316: the preprocessed texts that are not blank
CtProcessedTexts(texts) ==
    LET idx == FilterSeq(AllIndicesOf(texts),
                         {i \in 1..Len(texts) : NonBlank(preprocessText(texts[i]))})
    IN [q \in 1..Len(idx) |-> preprocessText(texts[idx[q]])]

\* lines 1338-1353: termsList, the terms in the order the Set first saw them
TermsList(docs) ==
    Dedupe(Concat([i \in 1..Len(docs) |->
                     LET lt == listTerms(docs, i - 1) IN [t \in 1..Len(lt) |-> lt[t].term]]))

\* lines 1362-1382: a document vector is a plain object term -> weight, kept
\* here as the entries of the document; empty objects are dropped
CtDocVectors(docs) ==
    LET idx == FilterSeq(AllIndicesOf(docs),
                         {i \in 1..Len(docs) : listTerms(docs, i - 1) # <<>>})
    IN [q \in 1..Len(idx) |-> listTerms(docs, idx[q] - 1)]

\* the value of the property "length" of a document vector: the weight of the
\* term "length" if the document has it (a positive number), else undefined
HasLengthProperty(vector) == \E t \in 1..Len(vector) : vector[t].term = W_length

\* cosineSimilarity(vecA, vecB) applied to two such objects: the loop runs
\* for i < vecA.length.  With vecA.length undefined it never runs, normA is 0
\* and the result is 0.  With vecA.length a positive weight it runs for
\* i = 0, where vecA[0] and vecB[0] are undefined, so every sum is NaN and so
\* is the result.
cosineSimilarityOfObjects(vecA, vecB) ==
    IF HasLengthProperty(vecA) THEN NaN ELSE Fin(0, 1)

\* the similarity matrix with the values of cosineSimilarity left as they are
CtSimilarityMatrixUnchecked(vectors) ==
    [i \in 1..Len(vectors) |->
        [q \in 1..Len(vectors) |-> cosineSimilarityOfObjects(vectors[i], vectors[q])]]

\* lines 1390-1405: the similarity matrix, a NaN or non-finite entry being
\* replaced by 1 on the diagonal and 0 off it
CtSimilarityMatrix(vectors) ==
    [i \in 1..Len(vectors) |->
        [q \in 1..Len(vectors) |->
            LET sim == cosineSimilarityOfObjects(vectors[i], vectors[q])
            IN IF sim.t # "fin" THEN (IF i = q THEN Fin(1, 1) ELSE Fin(0, 1)) ELSE sim]]

\* lines 1408-1410: distanceMatrix, every similarity sim replaced by 1 - sim
CtDistanceMatrix(sim) ==
    [i \in 1..Len(sim) |-> [q \in 1..Len(sim[i]) |-> OneMinus(sim[i][q])]]

\* simpleMDS starts from Math.random() coordinates and returns one finite
\* 2-D point per row of its matrix; which points is left open here: any
\* list of points of the pool
MdsPool == {Vec(<<0, 0>>), Vec(<<1, 0>>)}
simpleMDS(n) == [1..n -> MdsPool]

\* line 1433
CtK(nProcessed) == Min2(5, Max2(2, nProcessed \div 10))

\* lines 1437-1451: the assignments kmeans returns, or random ones if it throws
CtAssignments(coords, kk, nProcessed) ==
    LET outs == KmOutcomes("kmeans", coords, kk, KmeansMaxIterations)
    IN {o.assignments : o \in {u \in outs : ~u.threw}} \cup
       (IF \E o \in outs : o.threw THEN [1..nProcessed -> 0..(kk - 1)] ELSE {})

\* lines 1461-1470
CtPoints(texts, nProcessed, coords, asg) ==
    LET m == Min2(Min2(nProcessed, Len(texts)), Min2(Len(coords), Len(asg)))
    IN [i \in 1..m |-> [id |-> i - 1, text |-> texts[i],
                        coordinates |-> coords[i], cluster |-> asg[i]]]

\* the points of cluster c and of every cluster before it
MembersUpTo(pts, c) == FilterSeq(AllIndicesOf(pts), {i \in 1..Len(pts) : pts[i].cluster <= c})

\* the indices (1-based) of the points of cluster c
MembersOf(pts, c) == FilterSeq(AllIndicesOf(pts), {i \in 1..Len(pts) : pts[i].cluster = c})

\* lines 1490-1503: the terms tallied for a cluster, in first-tallied order,
\* each with the number of member documents that list it among their first 5
CtClusterTerms(docs, pts, members) ==
    LET lists == [q \in 1..Len(members) |->
                    LET id == pts[members[q]].id
                        lt == IF id < 0 \/ id >= Len(docs) THEN <<>>
                              ELSE Slice(listTerms(docs, id), 5)
                    IN [t \in 1..Len(lt) |-> lt[t].term]]
        all == Concat(lists)
        keys == Dedupe(all)
    IN [t \in 1..Len(keys) |-> [term |-> keys[t], n |-> Len(FilterSeq(all, {keys[t]}))]]

\* lines 1473-1530: the summary of cluster c
CtSummary(docs, pts, c) ==
    LET members == MembersOf(pts, c)
        sorted == Slice(SortDesc(CtClusterTerms(docs, pts, members)), 5)
        keyTerms == [t \in 1..Len(sorted) |-> sorted[t].term]
    IN IF members = <<>>
       THEN [id |-> c, size |-> 0, keyTerms |-> <<EmptyClusterTerm>>,
             hasExample |-> TRUE, example |-> <<>>]
       ELSE [id |-> c, size |-> Len(members),
             keyTerms |-> IF keyTerms # <<>> THEN keyTerms ELSE <<NoKeyTermsTerm>>,
             hasExample |-> TRUE, example |-> pts[members[1]].text]

CtResult(docs, pts, kk) ==
    [kind |-> "result",
     points |-> pts,
     clusters |-> [c1 \in 1..kk |-> CtSummary(docs, pts, c1 - 1)],
     clusterCount |-> kk]

\* the five early returns of generateMockClusteringData(): no array or an
\* empty one, fewer than 2 texts, fewer than 2 processed texts, no term,
\* fewer than 2 document vectors
CtFallsBack(data) ==
    \/ ~data.arr
    \/ Len(data.items) = 0
    \/ Len(CtTexts(data)) < 2
    \/ Len(CtProcessedTexts(CtTexts(data))) < 2
    \/ Len(TermsList(CtProcessedTexts(CtTexts(data)))) = 0
    \/ Len(CtDocVectors(CtProcessedTexts(CtTexts(data)))) < 2

\* the similarity matrix of a call, <<>> when the call returns before it
CtBuiltMatrix(data) ==
    IF CtFallsBack(data) THEN <<>>
    ELSE CtSimilarityMatrix(CtDocVectors(CtProcessedTexts(CtTexts(data))))

\* every result clusterTexts(data) can return; it never throws
clusterTexts(data) ==
    LET texts == CtTexts(data)
        docs == CtProcessedTexts(texts)
        kk == CtK(Len(docs))
    IN IF CtFallsBack(data) THEN generateMockClusteringData
       ELSE UNION {{CtResult(docs, CtPoints(texts, Len(docs), coords, asg), kk) :
                       asg \in CtAssignments(coords, kk, Len(docs))} :
                   coords \in simpleMDS(Len(CtBuiltMatrix(data)))}

----------------------------------------------------------------------------
(* performTextClustering (dataProcessing.js 525-654) *)

\* the result of a call that raised
Raised == [kind |-> "raised", points |-> <<>>, clusters |-> <<>>, clusterCount |-> 0]

\* lines 536-538: the contents of the items that have one
PtcRawTexts(data) ==
    LET idx == FilterSeq(AllIndicesOf(data.items),
                         {i \in 1..Len(data.items) :
                             data.items[i].obj /\ data.items[i].content # <<>>})
    IN [q \in 1..Len(idx) |-> data.items[idx[q]].content]

\* line 542: every raw text preprocessed, blank results included
PtcTexts(rawTexts) == [i \in 1..Len(rawTexts) |-> preprocessText(rawTexts[i])]

\* lines 549-566: termsList, and for every document the array of its
\* weights for the terms of termsList
PtcDocVectors(texts) ==
    LET terms == TermsList(texts)
    IN [i \in 1..Len(texts) |->
          [t \in 1..Len(terms) |-> tfidf(texts, terms[t], i - 1)]]

\* lines 569-579
PtcSimilarityMatrix(vectors) ==
    [i \in 1..Len(vectors) |->
        [q \in 1..Len(vectors) |-> cosineSimilarity(vectors[i], vectors[q])]]

\* line 596
PtcK(n) == Min2(5, Max2(3, (n + 14) \div 15))

\* lines 603-627: the tokens of the documents of cluster c, by frequency
PtcKeyTerms(texts, asg, c) ==
    LET docs == FilterSeq(AllIndicesOf(asg), {i \in 1..Len(asg) : asg[i] = c})
        all == Concat([q \in 1..Len(docs) |-> SplitWords(texts[docs[q]])])
        keys == Dedupe(all)
        freq == [t \in 1..Len(keys) |-> [term |-> keys[t], n |-> Len(FilterSeq(all, {keys[t]}))]]
        sorted == Slice(SortDesc(freq), 10)
    IN [t \in 1..Len(sorted) |-> sorted[t].term]

\* lines 636-641: clusters_info
PtcClustersInfo(texts, asg, kk) ==
    [c1 \in 1..kk |->
        [id |-> c1 - 1,
         keyTerms |-> PtcKeyTerms(texts, asg, c1 - 1),
         count |-> Len(FilterSeq(asg, {c1 - 1}))]]

\* lines 585-593 and 630-633: one point per document
PtcPoints(rawTexts, coords, asg) ==
    [i \in 1..Len(rawTexts) |->
        [text |-> rawTexts[i], coordinates |-> coords[i],
         cluster |-> IF i <= Len(asg) THEN asg[i] ELSE -1]]

\* every outcome of performTextClustering(data): a result, or Raised when
\* the data is no array or kmeans raises (the catch block rethrows)
performTextClustering(data) ==
    LET rawTexts == PtcRawTexts(data)
        texts == PtcTexts(rawTexts)
        kk == PtcK(Len(texts))
    IN IF ~data.arr THEN {Raised}
       ELSE UNION {{IF o.threw THEN Raised
                    ELSE [kind |-> "result",
                          points |-> PtcPoints(rawTexts, coords, o.assignments),
                          clusters |-> PtcClustersInfo(texts, o.assignments, kk),
                          clusterCount |-> kk] :
                       o \in KmOutcomes("kmeans", coords, kk, KmeansMaxIterations)} :
                   coords \in simpleMDS(Len(texts))}

----------------------------------------------------------------------------
(* processVectorData (textClustering.js 351-417) *)

\* data: null (or without points), or an object with its points and its
\* clusterCount (0 when it has none)
NoVectorData == [valid |-> FALSE, points |-> <<>>, clusterCount |-> 0]
VectorData(pts, count) == [valid |-> TRUE, points |-> pts, clusterCount |-> count]

\* a point with its text and its vector (Missing when it has none)
VectorPoint(text, vector) == [text |-> text, vector |-> vector]

\* line 368: data.clusterCount || 5
DefaultClusterCount == 5
PvdK(data) == IF data.clusterCount = 0 THEN DefaultClusterCount ELSE data.clusterCount

\* lines 352-362: the two checks before the projection
PvdRejects(data) ==
    \/ ~data.valid
    \/ Len(data.points) = 0
    \/ ~data.points[1].vector.def

\* lines 372-376 (the coordinates tSNEProjection gives are not kept here)
PvdPoints(data, asg) ==
    [i \in 1..Len(data.points) |->
        [text |-> data.points[i].text, vector |-> data.points[i].vector,
         cluster |-> asg[i]]]

\* lines 390-402: the lower-cased words longer than 3 of the cluster's
\* texts, by frequency
PvdKeyTerms(pts, members) ==
    LET all == Concat([q \in 1..Len(members) |->
                         LET text == pts[members[q]].text
                             ws == [t \in 1..Len(text) |-> ToLowerCase(text[t])]
                         IN FilterSeq(ws, {w \in Range(ws) : Len(w) > 3})])
        keys == Dedupe(all)
        freq == [t \in 1..Len(keys) |-> [term |-> keys[t], n |-> Len(FilterSeq(all, {keys[t]}))]]
        sorted == Slice(SortDesc(freq), 10)
    IN [t \in 1..Len(sorted) |-> sorted[t].term]

\* lines 379-410: one summary per cluster that has a member
PvdClusters(pts, kk) ==
    LET ids == FilterSeq([c1 \in 1..kk |-> c1 - 1],
                         {c \in 0..(kk - 1) : MembersOf(pts, c) # <<>>})
    IN [q \in 1..Len(ids) |->
          LET members == MembersOf(pts, ids[q])
              first == Slice(members, 5)
          IN [id |-> ids[q], size |-> Len(members),
              keyTerms |-> PvdKeyTerms(pts, members),
              samples |-> [t \in 1..Len(first) |-> pts[first[t]].text]]]

\* every outcome of processVectorData(data)
processVectorData(data) ==
    IF PvdRejects(data) THEN {Raised}
    ELSE LET vectors == [i \in 1..Len(data.points) |-> data.points[i].vector]
             kk == PvdK(data)
         IN {IF o.threw THEN Raised
             ELSE LET pts == PvdPoints(data, o.assignments)
                      cs == PvdClusters(pts, kk)
                  IN [kind |-> "result", points |-> pts, clusters |-> cs,
                      clusterCount |-> Len(cs)] :
                o \in KmOutcomes("kMeansWithVectors", vectors, kk, VectorIterations)}

----------------------------------------------------------------------------
(* Calls of the exported clustering functions *)

\* the items of an uploaded data set: no object, a stopword only, two
\* words, the word "length", one word
ItemPool == {NullItem, Item(<<W_the>>), Item(<<W_Cats, W_dog>>),
             Item(<<W_length>>), Item(<<W_dog>>)}

\* the items of the longest data sets: documents with a term
TermItemPool == {Item(<<W_Cats, W_dog>>), Item(<<W_dog>>)}

\* data sets with a document that preprocesses to the empty text (a
\* stopword) before, between and after two documents with a term
DroppedDocInputs ==
    {ArrayOf(<<Item(<<W_the>>), Item(<<W_Cats, W_dog>>), Item(<<W_dog>>)>>),
     ArrayOf(<<Item(<<W_Cats, W_dog>>), Item(<<W_the>>), Item(<<W_dog>>)>>),
     ArrayOf(<<Item(<<W_Cats, W_dog>>), Item(<<W_dog>>), Item(<<W_the>>)>>)}

DataInputs ==
    {NoArray} \cup DroppedDocInputs \cup
    {ArrayOf(items) : items \in SeqsUpTo(ItemPool, MaxDocs - 1) \cup [1..MaxDocs -> TermItemPool]}

\* the vectors of a point: none, the empty array getObjectsForClustering
\* gives an object without a vector, two 2-D vectors
VectorPool == {Missing, Vec(<<>>), Vec(<<0, 0>>), Vec(<<1, 0>>)}
VectorTextPool == {<<>>, <<W_Cats, W_dog>>}
VectorPointPool ==
    {VectorPoint(<<>>, v) : v \in VectorPool} \cup
    {VectorPoint(t, Vec(<<1, 0>>)) : t \in VectorTextPool}

VectorInputs ==
    {NoVectorData} \cup
    {VectorData(pts, c) : pts \in SeqsUpTo(VectorPointPool, MaxVecs), c \in 0..MaxK}

\* no clusterer is running
KmIdle ==
    /\ fn = "none"
    /\ points = <<>>
    /\ k = 0
    /\ maxIter = 0
    /\ pc = "idle"
    /\ KmBlank

\* the argument of the call is drawn at the start
InitFn ==
    /\ KmIdle
    /\ PureBlank
    /\ UploadBlank
    /\ PageBlank
    /\ call = "none"
    /\ input \in DataInputs \cup VectorInputs
    /\ result = NoResult
    /\ similarityMatrix = <<>>
    /\ mdsMatrix = <<>>
    /\ kmeansArgs = NotClustered
    /\ termsList = <<>>
    /\ docVectors = <<>>

\* a document vector as a JavaScript value: an array of weights, or a plain
\* object with a weight under each of its keys
ArrayVector(x) == [isArray |-> TRUE, x |-> x, keys |-> <<>>]
ObjectVector(keys, x) == [isArray |-> FALSE, x |-> x, keys |-> keys]

\* lines 1364-1377: vector[term.term] = term.tfidf for the terms of the
\* document; the entries of a document count its words, so the weight of an
\* entry is its count over the sum of the counts
CtVectorObjects(data) ==
    IF CtFallsBack(data) THEN <<>>
    ELSE LET vs == CtDocVectors(CtProcessedTexts(CtTexts(data)))
         IN [i \in 1..Len(vs) |->
               LET total == SeqSum([t \in 1..Len(vs[i]) |-> vs[i][t].n])
               IN ObjectVector([t \in 1..Len(vs[i]) |-> vs[i][t].term],
                               [t \in 1..Len(vs[i]) |-> Ratio(vs[i][t].n, total)])]

\* lines 557-566: new Array(termsList.length).fill(0), filled by position
PtcVectorArrays(data) ==
    IF ~data.arr THEN <<>>
    ELSE LET vs == PtcDocVectors(PtcTexts(PtcRawTexts(data)))
         IN [i \in 1..Len(vs) |-> ArrayVector(vs[i])]

\* line 1437: kmeans(validCoordinates, k), one coordinate pair per row of
\* the matrix simpleMDS was given
CtKmeansArgs(data) ==
    IF CtFallsBack(data) THEN NotClustered
    ELSE Clustered(CtK(Len(CtProcessedTexts(CtTexts(data)))), Len(CtBuiltMatrix(data)))

CallClusterTexts ==
    /\ call = "none"
    /\ input \in DataInputs
    /\ call' = "clusterTexts"
    /\ result' \in clusterTexts(input)
    /\ similarityMatrix' = CtBuiltMatrix(input)
    /\ mdsMatrix' = CtDistanceMatrix(CtBuiltMatrix(input))
    /\ kmeansArgs' = CtKmeansArgs(input)
    /\ termsList' = (IF CtFallsBack(input) THEN <<>>
                     ELSE TermsList(CtProcessedTexts(CtTexts(input))))
    /\ docVectors' = CtVectorObjects(input)
    /\ UNCHANGED <<input, kmVars, pageVars, pureVars, uploadVars>>

\* the matrices performTextClustering builds when its data is an array
PtcBuiltMatrix(data) ==
    IF ~data.arr THEN <<>>
    ELSE PtcSimilarityMatrix(PtcDocVectors(PtcTexts(PtcRawTexts(data))))

\* line 597: kmeans(mds, k, 10), mds holding one point per document
PtcKmeansArgs(data) ==
    IF ~data.arr THEN NotClustered
    ELSE Clustered(PtcK(Len(PtcRawTexts(data))), Len(PtcRawTexts(data)))

CallPerformTextClustering ==
    /\ call = "none"
    /\ input \in DataInputs
    /\ call' = "performTextClustering"
    /\ result' \in performTextClustering(input)
    /\ similarityMatrix' = PtcBuiltMatrix(input)
    /\ mdsMatrix' = PtcBuiltMatrix(input)
    /\ kmeansArgs' = PtcKmeansArgs(input)
    /\ termsList' = (IF ~input.arr THEN <<>>
                     ELSE TermsList(PtcTexts(PtcRawTexts(input))))
    /\ docVectors' = PtcVectorArrays(input)
    /\ UNCHANGED <<input, kmVars, pageVars, pureVars, uploadVars>>

\* line 369: kMeansWithVectors(vectors, k)
PvdKmeansArgs(data) ==
    IF PvdRejects(data) THEN NotClustered ELSE Clustered(PvdK(data), Len(data.points))

CallProcessVectorData ==
    /\ call = "none"
    /\ input \in VectorInputs
    /\ call' = "processVectorData"
    /\ result' \in processVectorData(input)
    /\ kmeansArgs' = PvdKmeansArgs(input)
    /\ UNCHANGED <<input, similarityMatrix, mdsMatrix, termsList, docVectors,
                   kmVars, pageVars, pureVars, uploadVars>>

NextFn == CallClusterTexts \/ CallPerformTextClustering \/ CallProcessVectorData

SpecFn == InitFn /\ [][NextFn]_vars

----------------------------------------------------------------------------
(* TextClusteringPage (UploadPage.js 681-) *)

\* the generateMockClusteringData of the page's first effect (lines 698-759):
\* as the one of dataProcessing.js, with generated texts
MockText(pointId, c) == << <<"Mock text">>, <<pointId>>, <<c>> >>
ThemeTerms(c) == << <<"theme terms">>, <<c>> >>
ThemeExample(c) == << <<"This message is about">>, <<c>> >>

PageMockResult(sizes) ==
    LET base == MockResult(sizes)
    IN [kind |-> "mock",
        points |-> [p1 \in 1..Len(base.points) |->
                      [id |-> p1 - 1, text |-> MockText(p1, base.points[p1].cluster),
                       cluster |-> base.points[p1].cluster]],
        clusters |-> [c1 \in 1..Len(sizes) |->
                        [id |-> c1 - 1, size |-> sizes[c1], keyTerms |-> ThemeTerms(c1 - 1),
                         hasExample |-> TRUE, example |-> ThemeExample(c1 - 1)]],
        clusterCount |-> Len(sizes)]

pageGenerateMockClusteringData == {PageMockResult(sizes) : sizes \in MockSizeSamples}

\* the prop data: null, an array of items, or the object UploadPage builds,
\* with textClustering (vector data with useVectors set, or a stored result),
\* rawData (NoArray when it has none) and a weaviateStatus that is connected
\* with a successful upload or not
NoPageData ==
    [present |-> FALSE, isArray |-> FALSE, items |-> <<>>, hasTextClustering |-> FALSE,
     useVectors |-> FALSE, textClustering |-> NoResult, rawData |-> NoArray,
     weaviateOk |-> FALSE]
ArrayPage(items) == [NoPageData EXCEPT !.present = TRUE, !.isArray = TRUE, !.items = items]
PlainPage(rd, ok) == [NoPageData EXCEPT !.present = TRUE, !.rawData = rd, !.weaviateOk = ok]
StoredPage(stored, rd) ==
    [NoPageData EXCEPT !.present = TRUE, !.hasTextClustering = TRUE,
                       !.textClustering = stored, !.rawData = rd]
VectorPage(vd, rd, ok) ==
    [NoPageData EXCEPT !.present = TRUE, !.hasTextClustering = TRUE, !.useVectors = TRUE,
                       !.textClustering = vd, !.rawData = rd, !.weaviateOk = ok]

TwoDocs == ArrayOf(<<Item(<<W_Cats, W_dog>>), Item(<<W_dog>>)>>)
RawDataPool == {NoArray, ArrayOf(<<>>), TwoDocs}

\* results processData stored: what performTextClustering returned
StoredResults == {o \in performTextClustering(TwoDocs) : o.kind = "result"}

\* the vector data processData stores (lines 313-327) when the upload to
\* Weaviate succeeded: points with a text and no vector or a 2-D one, and a
\* clusterCount: none, or the largest of the model
PageVectorPoints ==
    {VectorPoint(<<W_Cats, W_dog>>, v) : v \in {Missing, Vec(<<0, 0>>), Vec(<<1, 0>>)}}
PageVectorInputs ==
    {NoVectorData} \cup
    {VectorData(pts, c) : pts \in SeqsUpTo(PageVectorPoints, MaxVecs), c \in {0, MaxK}}

PageInputs ==
    {NoPageData}
    \cup {ArrayPage(d.items) : d \in RawDataPool \ {NoArray}}
    \cup {PlainPage(rd, ok) : rd \in RawDataPool, ok \in BOOLEAN}
    \cup {StoredPage(o, rd) : o \in StoredResults, rd \in RawDataPool}
    \cup {VectorPage(vd, rd, TRUE) : vd \in PageVectorInputs, rd \in RawDataPool}

InitPage ==
    /\ KmIdle
    /\ PureBlank
    /\ UploadBlank
    /\ FnBlank
    /\ pageData \in PageInputs
    /\ useWeaviate = TRUE
    /\ loading = TRUE
    /\ clusteringData = NoResult
    /\ error = "null"
    /\ scatterData = "null"
    /\ pending = {"load"}
    /\ vectorError = FALSE

\* lines 775-778: the catch of the first branch
VectorFallbackToMock(pd) == pageGenerateMockClusteringData
VectorFallback(pd) == clusterTexts(pd.rawData)

\* a catch that stores nothing
LoadedUnlessCaught(cd, caught) == [cd |-> IF caught THEN NoResult ELSE cd, caught |-> caught]

Loaded(cd, caught) == [cd |-> cd, caught |-> caught]

\* lines 761-840: what the first effect stores, and whether the catch of
\* its first branch ran.  clusterTexts returns for every argument and
\* processVectorData is called inside its own try, so the outer catch
\* (lines 841-846) has no call that reaches it.
LoadOutcomes(pd, uw) ==
    IF pd.present /\ pd.hasTextClustering
    THEN IF pd.useVectors
         THEN UNION {IF o.kind = "raised"
                     THEN {Loaded(f, TRUE) : f \in VectorFallback(pd)}
                     ELSE {Loaded(o, FALSE)} :
                        o \in processVectorData(pd.textClustering)}
         ELSE {Loaded(pd.textClustering, FALSE)}
    ELSE IF pd.present /\ uw /\ pd.weaviateOk
    THEN IF pd.rawData.arr
         THEN {Loaded(o, FALSE) : o \in clusterTexts(pd.rawData)}
         ELSE {Loaded(o, FALSE) : o \in pageGenerateMockClusteringData}
    ELSE IF pd.present /\ pd.rawData.arr
    THEN {Loaded(o, FALSE) : o \in clusterTexts(pd.rawData)}
    ELSE IF pd.present /\ pd.isArray
    THEN UNION {IF Len(o.points) > 0 THEN {Loaded(o, FALSE)}
                ELSE {Loaded(m, FALSE) : m \in pageGenerateMockClusteringData} :
                   o \in clusterTexts(ArrayOf(pd.items))}
    ELSE {Loaded(o, FALSE) : o \in pageGenerateMockClusteringData}

\* the first effect (deps [data, useWeaviate]); finally setLoading(false).
\* The new clusteringData makes the second effect due.
LoadEffect ==
    /\ "load" \in pending
    /\ \E o \in LoadOutcomes(pageData, useWeaviate) :
          /\ clusteringData' = o.cd
          /\ vectorError' = o.caught
          /\ pending' = (pending \ {"load"}) \cup
                          (IF o.cd # clusteringData THEN {"prepare"} ELSE {})
    /\ loading' = FALSE
    /\ UNCHANGED <<pageData, useWeaviate, error, scatterData, kmVars, fnVars, pureVars, uploadVars>>

\* the second effect (lines 849-858): prepareVisualizationData, which sets
\* scatterData to null when there is no point and to the datasets otherwise;
\* it reads the points' cluster, coordinates and text and raises on none of
\* the results above, so the catch that sets error does not run
PrepareEffect ==
    /\ "prepare" \in pending
    /\ "load" \notin pending
    /\ scatterData' = IF Len(clusteringData.points) = 0 THEN "null" ELSE "set"
    /\ pending' = pending \ {"prepare"}
    /\ UNCHANGED <<pageData, useWeaviate, loading, clusteringData, error, vectorError,
                   kmVars, fnVars, pureVars, uploadVars>>

\* the switch of line 976, rendered when data.weaviateStatus.connected:
\* setUseWeaviate(!useWeaviate)
ToggleUseWeaviate ==
    /\ ~loading
    /\ pageData.weaviateOk
    /\ useWeaviate' = ~useWeaviate
    /\ pending' = pending \cup {"load"}
    /\ UNCHANGED <<pageData, loading, clusteringData, error, scatterData, vectorError,
                   kmVars, fnVars, pureVars, uploadVars>>

NextPage == LoadEffect \/ PrepareEffect \/ ToggleUseWeaviate

SpecPage == InitPage /\ [][NextPage]_vars

----------------------------------------------------------------------------
(* The helper functions, applied on their own *)

\* the words of a text: a stopword, a capitalised plural, a word no rule
\* touches, a word that two rules shorten in turn, a word a rule shortens
\* to one letter
WordPool == {W_the, W_Cats, W_dog, W_sings, W_bed}
TextInputs == SeqsUpTo(WordPool, MaxWords)

PreprocessArgs == {[fn |-> "preprocessText", text |-> x] : x \in TextInputs}

\* the weights of a document vector of performTextClustering
WeightPool == {Ratio(0, 1), Ratio(1, 2), Ratio(1, 1)}

\* cosineSimilarity is private to dataProcessing.js; the arrays it is handed
\* (line 576) are document vectors over one termsList, so of one length
CosineArgs ==
    UNION {{[fn |-> "cosineSimilarity", vecA |-> vecA, vecB |-> vecB] :
              vecA \in [1..n -> WeightPool], vecB \in [1..n -> WeightPool]} :
           n \in 0..MaxTerms}

\* an n x n matrix with diag on the diagonal and off elsewhere
SquareMatrix(n, diag, off) ==
    [i \in 1..n |-> [q \in 1..n |-> IF i = q THEN diag ELSE off]]

\* Math.random() * 2 - 1 is in [-1, 1)
RandomUnitPool == {-1, 0}

\* the matrices handed to simpleMDS, with the coordinates Math.random gives
MdsArgs ==
    UNION {{[fn |-> "simpleMDS", distanceMatrix |-> SquareMatrix(n, diag, off),
             random |-> random] :
              diag \in {Ratio(0, 1), Ratio(1, 1)}, off \in {Ratio(0, 1), Ratio(1, 1)},
              random \in [1..n -> {Vec(<<x, y>>) : x, y \in RandomUnitPool}]} :
           n \in 0..MaxVecs}

\* the pairs i < j of the loops of lines 687-688
MdsPairs(n) == {pr \in (0..(n - 1)) \X (0..(n - 1)) : pr[2] >= pr[1] + 1}

\* simpleMDS(distanceMatrix, 2) started from the coordinates random: without
\* a pair the loops change no point; with pairs the points after 50 sweeps
\* are left open
simpleMDSFrom(distanceMatrix, random) ==
    LET n == Len(distanceMatrix)
    IN IF MdsPairs(n) = {} THEN {[i \in 1..n |-> random[i]]}
       ELSE simpleMDS(n)

TsneLearningRate == 100

\* Math.random() * 0.0001, in units of 0.00005
TinyPool == {0, 1}

\* the vectors handed to tSNEProjection (undefined for NoArray), with the
\* coordinates Math.random gives
TsneArgs ==
    {[fn |-> "tSNEProjection", vectors |-> NoArray, random |-> <<>>]} \cup
    UNION {{[fn |-> "tSNEProjection", vectors |-> ArrayOf(vs), random |-> random] :
              vs \in [1..n -> VectorPool],
              random \in [1..n -> {<<x, y>> : x, y \in TinyPool}]} :
           n \in 0..MaxVecs}

\* calculateGradient (lines 268-312): the gradient of a point is a sum over
\* the other points; it is [0, 0] when there is no other point, whatever
\* probs holds
GradientOfLonePoint == <<0, 0>>

\* x / std without the fallback: 0 / 0 is NaN
DivideByStd(diff, variance) ==
    IF variance.num = 0
    THEN (IF diff.num = 0 THEN NaN ELSE Inf)
    ELSE SignedRoot(IF diff.num < 0 THEN -1 ELSE 1,
                    RatioMul(RatioMul(diff, diff), Ratio(variance.cnt, variance.num)))

\* x / (std || 1), lines 341-342
DivideByStdOrOne(diff, variance) ==
    IF variance.num = 0 THEN diff
    ELSE SignedRoot(IF diff.num < 0 THEN -1 ELSE 1,
                    RatioMul(RatioMul(diff, diff), Ratio(variance.cnt, variance.num)))

\* normalizePoints (lines 318-344) on points with integer coordinates
normalizePoints(pts) ==
    LET n == Len(pts)
        mean == [d \in 1..2 |-> RatioSum([i \in 1..n |-> Ratio(pts[i][d], n)])]
        diff(i, d) == RatioAdd(Ratio(pts[i][d], 1), RatioMul(Ratio(-1, 1), mean[d]))
        variance == [d \in 1..2 |->
                       RatioSum([i \in 1..n |->
                                   RatioMul(RatioMul(diff(i, d), diff(i, d)), Ratio(1, n))])]
    IN [i \in 1..n |-> [d \in 1..2 |-> DivideByStdOrOne(diff(i, d), variance[d])]]

\* the points tSNEProjection can end with when there are two or more
TsnePool == {<<Ratio(0, 1), Ratio(0, 1)>>, <<Ratio(1, 1), Ratio(-1, 1)>>, <<NaN, NaN>>}

\* tSNEProjection(vectors) started from the coordinates random (lines
\* 91-142): [] without vectors; a lone point is moved by its gradient and
\* normalised; the points of two or more vectors are left open
tSNEProjectionFrom(vectors, random) ==
    LET n == Len(vectors.items)
    IN IF ~vectors.arr \/ n = 0 THEN {<<>>}
       ELSE IF n = 1
       THEN {normalizePoints(
                [i \in 1..n |->
                   [d \in 1..2 |-> random[i][d] - TsneLearningRate * GradientOfLonePoint[d]]])}
       ELSE [1..n -> TsnePool]

\* tSNEProjection lines 117 and 133: earlyExaggeration = 12, a
\* normalisation when iter % 50 === 0
TsneEarlyExaggeration == 12
TsneNormalizeEvery == 50

\* the factor through the first fifth of the iterations included
ExaggerationThroughFifth(iter, total) ==
    IF iter * 5 <= total THEN TsneEarlyExaggeration ELSE 1

\* line 123: iter < iterations / 5 ? earlyExaggeration : 1
Exaggeration(iter, total) ==
    IF iter * 5 < total THEN TsneEarlyExaggeration ELSE 1

\* a normalisation at the end of every fiftieth iteration
NormalizeDueAfterFifty(iter) == iter % TsneNormalizeEvery = TsneNormalizeEvery - 1

\* line 133: iter % 50 === 0
NormalizeDue(iter) == iter % TsneNormalizeEvery = 0

\* the numbers of iterations tSNEProjection is run with in the model
TsneIterationCounts == {0, 1, 4, 5, 6, 51, 101}

\* the points lines 126-130 leave (the gradient of two or more points is
\* left open), in units of the coordinates: coincident points, points that
\* share one coordinate, points that share none
TsneMovedPool ==
    {<<<<0, 0>>>>, <<<<1, 2>>>>,
     <<<<0, 0>>, <<0, 0>>>>, <<<<1, 0>>, <<-1, 0>>>>, <<<<1, 2>>, <<3, 0>>>>}

\* the main loop of tSNEProjection on the points of one or two vectors
TsneLoopArgs ==
    {[fn |-> "tSNELoop", iterations |-> it, random |-> random] :
        it \in TsneIterationCounts,
        random \in {<<<<0, 1>>>>, <<<<0, 0>>, <<1, 1>>>>}}

AsRatios(pts) == [i \in 1..Len(pts) |-> [d \in 1..2 |-> Ratio(pts[i][d], 1)]]

\* the state of the loop: the next iter, the factor handed to the last
\* calculateGradient (0 before the first), the last operation on points,
\* the points before their last normalisation and the points
TsneLoopState(iter, exaggeration, last, raw, pts) ==
    [iter |-> iter, exaggeration |-> exaggeration, last |-> last, raw |-> raw, points |-> pts]

\* points of the embedding with rational distances between them: the
\* corners of a rectangle with sides 3/5 and 4/5, and points of the x axis
\* at distances 1e-7 and 1e-6 from the origin
CornerPool == {<<Ratio(x, 5), Ratio(y, 5)>> : x \in {0, 3}, y \in {0, 4}}
NearPool == {<<Ratio(0, 1), Ratio(0, 1)>>, <<Ratio(1, 10000000), Ratio(0, 1)>>,
             <<Ratio(1, 1000000), Ratio(0, 1)>>}

\* one pass of the loop body of simpleMDS for the pair i < q, on points the
\* sweeps before it left, with the matrix entry for the pair
MdsPairArgs ==
    {[fn |-> "mdsPairUpdate", points |-> c[1],
      distanceMatrix |-> SquareMatrix(Len(c[1]), Ratio(1, 1), c[2]),
      i |-> c[3][1], j |-> c[3][2]] :
        c \in {cc \in ((UNION {[1..n -> CornerPool] : n \in 2..MaxN}) \cup [1..2 -> NearPool])
                         \X {Ratio(0, 1), Ratio(1, 2), Ratio(1, 1)}
                         \X ((1..MaxN) \X (1..MaxN)) :
                    cc[3][1] < cc[3][2] /\ cc[3][2] <= Len(cc[1])}}

PureInputs == PreprocessArgs \cup CosineArgs \cup MdsArgs \cup TsneArgs \cup MdsPairArgs \cup TsneLoopArgs

InitPure ==
    /\ KmIdle
    /\ FnBlank
    /\ PageBlank
    /\ UploadBlank
    /\ applied = "none"
    /\ args \in PureInputs
    /\ value = <<>>

pureOtherVars == <<kmVars, fnVars, pageVars, uploadVars>>

\* preprocessText(x)
ApplyPreprocessText ==
    /\ applied = "none"
    /\ args.fn = "preprocessText"
    /\ applied' = "preprocessText"
    /\ value' = <<preprocessText(args.text)>>
    /\ UNCHANGED <<args, pureOtherVars>>

\* preprocessText applied to the text it returned
ApplyPreprocessTextAgain ==
    /\ applied = "preprocessText"
    /\ Len(value) = 1
    /\ value' = Append(value, preprocessText(value[1]))
    /\ UNCHANGED <<applied, args, pureOtherVars>>

\* cosineSimilarity(vecA, vecB)
ApplyCosineSimilarity ==
    /\ applied = "none"
    /\ args.fn = "cosineSimilarity"
    /\ applied' = "cosineSimilarity"
    /\ value' = <<cosineSimilarity(args.vecA, args.vecB)>>
    /\ UNCHANGED <<args, pureOtherVars>>

\* simpleMDS(distanceMatrix, 2)
ApplySimpleMDS ==
    /\ applied = "none"
    /\ args.fn = "simpleMDS"
    /\ applied' = "simpleMDS"
    /\ \E pts \in simpleMDSFrom(args.distanceMatrix, args.random) : value' = <<pts>>
    /\ UNCHANGED <<args, pureOtherVars>>

\* tSNEProjection(vectors)
ApplyTSNEProjection ==
    /\ applied = "none"
    /\ args.fn = "tSNEProjection"
    /\ applied' = "tSNEProjection"
    /\ \E pts \in tSNEProjectionFrom(args.vectors, args.random) : value' = <<pts>>
    /\ UNCHANGED <<args, pureOtherVars>>

\* the body of the loops of simpleMDS for one pair
ApplyMdsPairUpdate ==
    /\ applied = "none"
    /\ args.fn = "mdsPairUpdate"
    /\ applied' = "mdsPairUpdate"
    /\ value' = <<MdsPairUpdate(args.points, args.distanceMatrix, args.i, args.j)>>
    /\ UNCHANGED <<args, pureOtherVars>>

\* tSNEProjection lines 110-117: the loop is entered with the random points
TsneEnter ==
    /\ applied = "none"
    /\ args.fn = "tSNELoop"
    /\ applied' = "tSNELoop"
    /\ value' = <<TsneLoopState(0, 0, "init", args.random, AsRatios(args.random))>>
    /\ UNCHANGED <<args, pureOtherVars>>

\* lines 120-136: one iteration, with the normalisation that ends it when
\* it is due
TsneIterate ==
    /\ applied = "tSNELoop"
    /\ value[1].iter < args.iterations
    /\ \E moved \in {m \in TsneMovedPool : Len(m) = Len(args.random)} :
          value' = <<TsneLoopState(value[1].iter + 1,
                                   Exaggeration(value[1].iter, args.iterations),
                                   IF NormalizeDue(value[1].iter) THEN "normalize" ELSE "update",
                                   moved,
                                   IF NormalizeDue(value[1].iter)
                                   THEN normalizePoints(moved) ELSE AsRatios(moved))>>
    /\ UNCHANGED <<applied, args, pureOtherVars>>

\* lines 138-141: the final normalisation and the return (normalised
\* points have mean 0 and deviation 1 or 0, and normalise to themselves)
TsneReturn ==
    /\ applied = "tSNELoop"
    /\ ~(value[1].iter < args.iterations)
    /\ applied' = "tSNEReturned"
    /\ value' = <<[value[1] EXCEPT !.last = "normalize",
                                   !.points = IF value[1].last = "normalize"
                                              THEN value[1].points
                                              ELSE normalizePoints(value[1].raw)]>>
    /\ UNCHANGED <<args, pureOtherVars>>

NextPure ==
    \/ TsneEnter
    \/ TsneIterate
    \/ TsneReturn
    \/ ApplyMdsPairUpdate
    \/ ApplyPreprocessText
    \/ ApplyPreprocessTextAgain
    \/ ApplyCosineSimilarity
    \/ ApplySimpleMDS
    \/ ApplyTSNEProjection

SpecPure == InitPure /\ [][NextPure]_vars

----------------------------------------------------------------------------
(* UploadPage.processData, one action per await *)

ProgressStep == 5
ProgressCap == 100
StoredClusterCount == 5

\* lines 247-250: progressCounter += 5; setProgress(Math.min(progressCounter, 100))
updateProgress(p) == Min2(p + ProgressStep, ProgressCap)

\* item[sourceField] of an item of the model, which has the one field content
FieldOf(item, field) == IF field = "content" THEN item.content ELSE <<>>

\* lines 172-194: rawData.map reads item[sourceField], a TypeError when the
\* item is null
TransformThrows == \E i \in 1..Len(rawData.items) : ~rawData.items[i].obj

\* lines 172-194: content is the mapped field, or the item's own content
\* when the mapped field gave none
getTransformedData ==
    ArrayOf([i \in 1..Len(rawData.items) |->
               LET mapped == FieldOf(rawData.items[i], contentField)
               IN Item(IF mapped # <<>> THEN mapped ELSE rawData.items[i].content)])

\* what an analysis other than the clustering resolved with
ResultOf(a) == [kind |-> "result", of |-> a]

\* lines 313-327: the vectors of Weaviate stored for the page
StoredVectors(vectorData) ==
    [kind |-> "vectors", points |-> vectorData, clusters |-> <<>>,
     clusterCount |-> StoredClusterCount, useVectors |-> TRUE]

\* what getObjectsForClustering resolves with: it catches every error and
\* gives [] then
VectorDataPool == {<<>>, <<VectorPoint(<<W_dog>>, Vec(<<1, 0>>))>>}

\* the try of an analysis resolved: the result is kept
Resolved(a, res) == [results |-> [analysisResults EXCEPT ![a] = res], goesOn |-> TRUE]

\* the catch of the outer try instead of the analysis's own
CaughtByOuterTry(a) == [results |-> analysisResults, goesOn |-> FALSE]

\* the catch of an analysis (lines 280-283, 290-293, 300-303, 336-339,
\* 345-348): the result is null and processData goes on
Caught(a) == [results |-> [analysisResults EXCEPT ![a] = Null], goesOn |-> TRUE]

StageAfter(a) ==
    CASE a = "upload" -> "topicModeling"
      [] a = "topicModeling" -> "sentimentAnalysis"
      [] a = "sentimentAnalysis" -> "timeSeries"
      [] a = "timeSeries" -> "textClustering"
      [] a = "textClustering" -> "hallucination"
      [] a = "hallucination" -> "done"

\* lines 353-368
Combined(results) ==
    [topicModeling |-> results["topicModeling"],
     sentimentAnalysis |-> results["sentimentAnalysis"],
     timeSeries |-> results["timeSeries"],
     textClustering |-> results["textClustering"],
     hallucination |-> results["hallucination"],
     rawData |-> getTransformedData,
     weaviateStatus |-> [enabled |-> shouldUseWeaviate,
                         connected |-> weaviateStatus,
                         uploadSuccess |-> weaviateUploadResult.success]]

\* lines 375-379
OuterCatch ==
    /\ uploadError' = "Error processing data"
    /\ uploadLoading' = FALSE
    /\ stage' = "failed"

\* processData after the try of analysis a: the next await, or after the last
\* one lines 350-374
GoOn(a, outcome, progressed) ==
    /\ analysisResults' = outcome.results
    /\ IF ~outcome.goesOn
       THEN OuterCatch /\ UNCHANGED <<delivered, progress>>
       ELSE IF StageAfter(a) = "done"
       THEN /\ progress' = ProgressCap
            /\ delivered' = Append(delivered, Combined(outcome.results))
            /\ uploadLoading' = FALSE
            /\ stage' = "done"
            /\ UNCHANGED uploadError
       ELSE /\ stage' = StageAfter(a)
            /\ progress' = (IF progressed THEN updateProgress(progress) ELSE progress)
            /\ UNCHANGED <<delivered, uploadLoading, uploadError>>

UploadInputs ==
    {NoArray, ArrayOf(<<>>), TwoDocs, ArrayOf(<<Item(<<W_dog>>), NullItem>>)}

InitUpload ==
    /\ KmIdle
    /\ FnBlank
    /\ PageBlank
    /\ PureBlank
    /\ rawData \in UploadInputs
    /\ contentField \in {"", "content", "text"}
    /\ shouldUseWeaviate \in BOOLEAN
    /\ weaviateStatus \in BOOLEAN
    /\ weaviateUploadResult = [success |-> FALSE]
    /\ stage = "idle"
    /\ analysisResults = [a \in AnalysisNames |-> Unset]
    /\ thrown = {}
    /\ delivered = <<>>
    /\ uploadLoading = FALSE
    /\ uploadError = "null"
    /\ progress = 0

uploadInputVars == <<rawData, contentField, shouldUseWeaviate, weaviateStatus>>
otherVars == <<kmVars, fnVars, pageVars, pureVars>>

\* lines 225-268, up to the first await
ProcessData ==
    /\ stage = "idle"
    /\ IF ~rawData.arr
       THEN /\ uploadError' = "Please select a file first"
            /\ UNCHANGED <<stage, uploadLoading>>
       ELSE IF contentField = ""
       THEN /\ uploadError' = "Content field mapping is required"
            /\ UNCHANGED <<stage, uploadLoading>>
       ELSE IF TransformThrows
       THEN OuterCatch
       ELSE /\ uploadLoading' = TRUE
            /\ uploadError' = "null"
            /\ stage' = (IF shouldUseWeaviate /\ weaviateStatus
                         THEN "upload" ELSE StageAfter("upload"))
    /\ UNCHANGED <<uploadInputVars, weaviateUploadResult, analysisResults, thrown,
                   delivered, progress, otherVars>>

\* line 252: the interval runs while processData is suspended
IntervalTick ==
    /\ stage \in {"upload"} \cup AnalysisNames
    /\ progress' = updateProgress(progress)
    /\ UNCHANGED <<uploadInputVars, weaviateUploadResult, stage, analysisResults,
                   thrown, delivered, uploadLoading, uploadError, otherVars>>

\* lines 256-268: uploadToWeaviate resolves in every case
UploadResolves ==
    /\ stage = "upload"
    /\ \E ok \in BOOLEAN : weaviateUploadResult' = [success |-> ok]
    /\ progress' = updateProgress(progress)
    /\ stage' = StageAfter("upload")
    /\ UNCHANGED <<uploadInputVars, analysisResults, thrown, delivered,
                   uploadLoading, uploadError, otherVars>>

\* a try block with one await: the analysis resolves or rejects
Analysis(a, progressed) ==
    /\ stage = a
    /\ \E rejects \in BOOLEAN :
          IF rejects
          THEN GoOn(a, Caught(a), FALSE) /\ thrown' = thrown \cup {a}
          ELSE GoOn(a, Resolved(a, ResultOf(a)), progressed) /\ UNCHANGED thrown
    /\ UNCHANGED <<uploadInputVars, weaviateUploadResult, otherVars>>

\* lines 275-283
TopicModeling == Analysis("topicModeling", TRUE)

\* lines 285-293
SentimentAnalysis == Analysis("sentimentAnalysis", TRUE)

\* lines 295-303
TimeSeries == Analysis("timeSeries", TRUE)

\* lines 305-339
TextClustering ==
    /\ stage = "textClustering"
    /\ \E vectorData \in VectorDataPool, o \in performTextClustering(getTransformedData) :
          IF /\ shouldUseWeaviate /\ weaviateStatus /\ weaviateUploadResult.success
             /\ Len(vectorData) > 0
          THEN /\ GoOn("textClustering",
                       Resolved("textClustering", StoredVectors(vectorData)), TRUE)
               /\ UNCHANGED thrown
          ELSE IF o.kind = "raised"
          THEN /\ GoOn("textClustering", Caught("textClustering"), FALSE)
               /\ thrown' = thrown \cup {"textClustering"}
          ELSE /\ GoOn("textClustering", Resolved("textClustering", o), TRUE)
               /\ UNCHANGED thrown
    /\ UNCHANGED <<uploadInputVars, weaviateUploadResult, otherVars>>

\* lines 341-374: the last analysis, then the results are handed over
HallucinationDetection == Analysis("hallucination", FALSE)

NextUpload ==
    \/ ProcessData
    \/ IntervalTick
    \/ UploadResolves
    \/ TopicModeling
    \/ SentimentAnalysis
    \/ TimeSeries
    \/ TextClustering
    \/ HallucinationDetection

SpecUpload == InitUpload /\ [][NextUpload]_vars

----------------------------------------------------------------------------
(* Properties of the clusterers (checked under SpecKM) *)

AllIndices(n) == [i \in 1..n |-> i]

\* the number of points assigned to cluster c
ClusterSize(asg, c) == Len(Assigned(asg, c))

\* the value of centroid c is the vector sum / cnt
CentroidIs(c, sum, cnt) ==
    /\ c.kind = "mean"
    /\ Len(c.sum) = Len(sum)
    /\ \A d \in 1..Len(sum) : c.sum[d] * cnt = sum[d] * c.cnt

Distinct(pts) == \A a, b \in 1..Len(pts) : a # b => pts[a] # pts[b]

\* C1: when a clusterer returns, assignments has one entry per input point,
\* every entry is a cluster id in 0..k-1, and the member counts of the
\* clusters sum to the number of points.
C1_AssignmentsPartition ==
    pc = "returned" =>
        /\ Len(assignments) = Len(points)
        /\ \A i \in 1..Len(assignments) : assignments[i] \in 0..(k - 1)
        /\ SeqSum([c \in 1..k |-> ClusterSize(assignments, c - 1)]) = Len(points)

C1_Witness ==
    /\ pc = "returned"
    /\ k = 2
    /\ Len(points) = 3
    /\ ClusterSize(assignments, 0) > 0
    /\ ClusterSize(assignments, 1) > 0

\* C2: a clusterer never returns centroids and assignments when it was given
\* fewer points than k; it fails instead.
C2_FailsWhenTooFew ==
    pc = "returned" => Len(points) >= k

\* the first 0-based index whose cumulative squared distance reaches the
\* draw (kept doubled)
FirstReach(draw, d2) ==
    CHOOSE jj \in 0..(Len(d2) - 1) :
        /\ 2 * Cumulative(d2, jj) >= draw.num
        /\ \A m \in 0..(jj - 1) : 2 * Cumulative(d2, m) < draw.num

\* C3: after a seeding round with a draw r > 0, the index pushed as the next
\* centroid is the first index whose cumulative squared distance reaches r,
\* and the point there is at non-zero distance from the centroids chosen
\* before it.
C3_SeedProportional ==
    (Len(centroids) >= 2 /\ r.t = "fin" /\ r.num > 0) =>
        /\ Min2(j, Len(points) - 1) = FirstReach(r, distances)
        /\ distances[Min2(j, Len(points) - 1) + 1].num > 0

\* C4 as claimed: with k = 1 the one centroid returned equals an input point.
C4_CentroidIsInputPoint ==
    (pc = "returned" /\ k = 1) =>
        /\ Len(centroids) = 1
        /\ \E i \in 1..Len(points) : CentroidIs(centroids[1], points[i].x, 1)

\* C4 as amended: with k = 1 and n >= 1 points exactly one centroid is
\* returned, it is the coordinate-wise mean of all n input points, and every
\* point is assigned to it.
C4_CentroidIsMean ==
    (pc = "returned" /\ k = 1) =>
        /\ Len(centroids) = 1
        /\ CentroidIs(centroids[1],
                      SumVector(points, AllIndices(Len(points)), Len(points[1].x)),
                      Len(points))
        /\ \A i \in 1..Len(points) : assignments[i] = 0

C4_Witness ==
    /\ pc = "returned"
    /\ k = 1
    /\ Len(points) >= 2
    /\ \A i \in 1..Len(points) : ~CentroidIs(centroids[1], points[i].x, 1)

\* C5 as claimed: on k <= n distinct points the loop ends because an
\* iteration changed no assignment, never because of the cap.
C5_ConvergesWithinCap ==
    (pc = "returned" /\ k <= Len(points) /\ Distinct(points)) => ~changed

\* C5 as amended: the loop ends after at most cap iterations, either because
\* the last iteration changed no assignment or, with assignments still
\* changing, because exactly cap iterations have run.
C5_EndsConvergedOrAtCap ==
    pc = "returned" =>
        /\ iterations >= 1
        /\ iterations <= maxIter
        /\ changed => iterations = maxIter

C5_Witness ==
    /\ pc = "returned"
    /\ k <= Len(points)
    /\ Distinct(points)
    /\ changed
    /\ iterations = maxIter

\* the clusterers as functions give what the clusterers give step by step
KmOutcomesAgree ==
    /\ pc = "returned" => Returned(centroids, assignments) \in KmOutcomes(fn, points, k, maxIter)
    /\ pc = "threw" => Threw \in KmOutcomes(fn, points, k, maxIter)

\* the assignment sweep of an iteration of the loop
AssignmentSweep == pc = "loop" /\ iterations' = iterations + 1

\* centroid c (0-based) is a nearest centroid of point i, and no centroid
\* before it is as near
NearestLowest(i, c) ==
    /\ c \in 0..(Len(centroids) - 1)
    /\ \A q \in 0..(Len(centroids) - 1) :
          /\ ~NumLess(Dist(fn, points[i], centroids[q + 1]),
                      Dist(fn, points[i], centroids[c + 1]))
          /\ q < c => NumLess(Dist(fn, points[i], centroids[c + 1]),
                              Dist(fn, points[i], centroids[q + 1]))

\* C20: in every assignment step of kmeans and kMeansWithVectors each point
\* is assigned to a centroid at minimum Euclidean distance, and of several
\* such centroids to the one of lowest index.
C20_AssignsNearestLowestIndex ==
    [][AssignmentSweep =>
          \A i \in 1..Len(points) : NearestLowest(i, assignments'[i])]_vars

\* the first sweep over three points of a line, two centroids: both
\* clusters have a point
C20_Witness ==
    /\ pc = "loop"
    /\ iterations = 1
    /\ Len(centroids) = 2
    /\ \E i, q \in 1..Len(points) : assignments[i] = 0 /\ assignments[q] = 1
    /\ points = <<Vec(<<0, 0>>), Vec(<<1, 0>>), Vec(<<2, 0>>)>>

\* an iteration of the loop whose update step did not raise
UpdateSweep == AssignmentSweep /\ pc' = "loop"

\* C21: in every update step of kmeans and kMeansWithVectors a centroid
\* with no assigned point is left unchanged, and a centroid with at least
\* one assigned point becomes the coordinate-wise mean of exactly its
\* assigned points.
C21_UpdateKeepsEmptyMeansOthers ==
    [][UpdateSweep =>
          \A c \in 0..(k - 1) :
             LET idx == Assigned(assignments', c)
             IN IF idx = <<>>
                THEN centroids'[c + 1] = centroids[c + 1]
                ELSE CentroidIs(centroids'[c + 1],
                                SumVector(points, idx, Len(points[1].x)), Len(idx))]_vars

\* after an update step one cluster is empty, with a centroid off the
\* origin, and the other has a centroid that is no input point
C21_Witness ==
    /\ pc = "loop"
    /\ iterations >= 1
    /\ k = 2
    /\ ClusterSize(assignments, 1) = 0
    /\ ~CentroidIs(centroids[2], <<0, 0>>, 1)
    /\ ClusterSize(assignments, 0) >= 2
    /\ \A i \in 1..Len(points) : ~CentroidIs(centroids[1], points[i].x, 1)

\* a step of the loop is its last, or it counts an iteration
KmLoopStepCounts == pc = "loop" => (pc' # "loop" \/ iterations' = iterations + 1)

\* C22: the loop of kmeans and kMeansWithVectors ends after at most
\* maxIterations iterations (every step of the loop counts an iteration or
\* leaves the loop, and the count never exceeds maxIterations), and no
\* iteration follows one in which no point changed its assignment.
C22_LoopEndsWithinCap ==
    /\ [](iterations <= maxIter)
    /\ [][KmLoopStepCounts]_vars
    /\ [][AssignmentSweep => (changed /\ iterations < maxIter)]_vars

\* a call returned after an iteration that changed nothing, the cap not reached
C22_Witness ==
    /\ pc = "returned"
    /\ ~changed
    /\ iterations >= 2
    /\ iterations < maxIter

\* all the input points are the same point
Coincident(pts) == \A a, b \in 1..Len(pts) : pts[a] = pts[b]

\* C23: when all n >= k input points of kmeans or kMeansWithVectors are
\* coincident, the returned assignments put all n points in one cluster and
\* leave every other cluster empty, whatever the seeding drew.
C23_CoincidentPointsOneCluster ==
    (pc = "returned" /\ Len(points) >= k /\ Coincident(points)) =>
        \E c \in 0..(k - 1) :
            /\ ClusterSize(assignments, c) = Len(points)
            /\ \A o \in 0..(k - 1) : o # c => ClusterSize(assignments, o) = 0

\* three identical points, k = 2
C23_Witness ==
    /\ pc = "returned"
    /\ k = 2
    /\ Len(points) = 3
    /\ Coincident(points)
    /\ ClusterSize(assignments, 0) = 3

\* C29: when kmeans or kMeansWithVectors returns because an iteration
\* changed no assignment, the returned pair is a fixed point of the
\* assignment step: every point's returned assignment is the lowest-index
\* centroid at minimum distance among the returned centroids.
C29_ReturnsFixedPoint ==
    (pc = "returned" /\ ~changed) =>
        \A i \in 1..Len(points) : NearestLowest(i, assignments[i])

\* the same of the returns after two or more iterations: the centroids of
\* the iteration before were already the means of these assignments
C29_FixedPointAfterSecondSweep ==
    (pc = "returned" /\ ~changed /\ iterations >= 2) =>
        \A i \in 1..Len(points) : NearestLowest(i, assignments[i])

----------------------------------------------------------------------------
(* Properties of the exported clustering functions (checked under SpecFn) *)

\* the cluster count k the called function computed for its input
CalledK ==
    IF call = "clusterTexts" THEN CtK(Len(CtProcessedTexts(CtTexts(input))))
    ELSE IF call = "performTextClustering" THEN PtcK(Len(PtcRawTexts(input)))
    ELSE PvdK(input)

HasMember(c) == \E i \in 1..Len(result.points) : result.points[i].cluster = c

\* a placeholder summary: zero size, one sentinel key term, an empty example
IsPlaceholder(summary) ==
    IF call = "clusterTexts"
    THEN summary.size = 0 /\ summary.keyTerms = <<EmptyClusterTerm>> /\ summary.example = <<>>
    ELSE IF call = "performTextClustering"
    THEN summary.count = 0 /\ Len(summary.keyTerms) = 1
    ELSE summary.size = 0 /\ Len(summary.keyTerms) = 1 /\ summary.samples = <<>>

SummariesComplete ==
    /\ Len(result.clusters) = CalledK
    /\ \A c \in 0..(CalledK - 1) :
          /\ result.clusters[c + 1].id = c
          /\ ~HasMember(c) => IsPlaceholder(result.clusters[c + 1])

\* C6: the cluster summary list of a result of clusterTexts,
\* performTextClustering or processVectorData has exactly one entry for
\* every cluster id 0..k-1, in id order, and a cluster without a member
\* appears as a placeholder (size 0, a sentinel key term, an empty example).
C6_OneSummaryPerCluster == result.kind = "result" => SummariesComplete

\* the part of C6 that clusterTexts alone is held to
C6_ClusterTextsSummaries ==
    (call = "clusterTexts" /\ result.kind = "result") => SummariesComplete

C6_ClusterTextsPlaceholder ==
    /\ call = "clusterTexts"
    /\ result.kind = "result"
    /\ \E c \in 0..(CalledK - 1) : ~HasMember(c)

\* fewer than 2 usable documents, or no term left after preprocessing
TooFewDocuments ==
    /\ input.arr
    /\ IF call = "clusterTexts"
       THEN \/ Len(CtProcessedTexts(CtTexts(input))) < 2
            \/ TermsList(CtProcessedTexts(CtTexts(input))) = <<>>
       ELSE \/ Len(PtcRawTexts(input)) < 2
            \/ TermsList(PtcTexts(PtcRawTexts(input))) = <<>>

\* C7: given fewer than 2 usable documents, or documents whose vocabulary is
\* empty after preprocessing, clusterTexts and performTextClustering return
\* without raising and the points list of the result is empty.
C7_EmptyResultWhenTooFew ==
    (call \in {"clusterTexts", "performTextClustering"} /\ TooFewDocuments)
        => (result.kind # "raised" /\ Len(result.points) = 0)

\* the two functions taken apart: each alone breaks the statement
C7_ClusterTextsEmptyResult ==
    (call = "clusterTexts" /\ TooFewDocuments)
        => (result.kind # "raised" /\ Len(result.points) = 0)

C7_PerformTextClusteringNoRaise ==
    (call = "performTextClustering" /\ TooFewDocuments) => result.kind # "raised"

\* some point of the list has no vector or an empty one
SomeVectorUnusable(vd) ==
    \E i \in 1..Len(vd.points) :
        ~vd.points[i].vector.def \/ Len(vd.points[i].vector.x) = 0

\* C8: processVectorData rejects with an error a point list in which a
\* vector is missing or is an empty array; it projects and clusters only
\* when every vector is present and non-empty.
C8_RejectsUnusableVectors ==
    (call = "processVectorData" /\ input.valid /\ SomeVectorUnusable(input))
        => result.kind = "raised"

\* the same for empty arrays only, every vector being present
C8_RejectsEmptyVectors ==
    (/\ call = "processVectorData"
     /\ input.valid
     /\ \A i \in 1..Len(input.points) : input.points[i].vector.def
     /\ SomeVectorUnusable(input))
        => result.kind = "raised"

InUnitInterval(x) == x.t = "fin" /\ 0 <= x.num /\ x.num <= x.cnt

\* C10: in the similarity matrix clusterTexts builds over its document
\* vectors every entry lies in [0, 1] and every diagonal entry is 1.
C10_SimilarityMatrixUnitDiagonal ==
    call = "clusterTexts" =>
    \A i \in 1..Len(similarityMatrix) :
        /\ \A q \in 1..Len(similarityMatrix) : InUnitInterval(similarityMatrix[i][q])
        /\ similarityMatrix[i][i] = Fin(1, 1)

\* the entries alone are in [0, 1]
C10_EntriesInUnitInterval ==
    call = "clusterTexts" =>
    \A i \in 1..Len(similarityMatrix) :
        \A q \in 1..Len(similarityMatrix) : InUnitInterval(similarityMatrix[i][q])

\* the document vectors of the call, by the terms they hold
CallDocVectors ==
    [i \in 1..Len(docVectors) |->
        [t \in 1..Len(docVectors[i].keys) |-> [term |-> docVectors[i].keys[t]]]]

\* C27: in clusterTexts an entry of the similarity matrix whose computed
\* value is NaN or not finite is replaced by 1 if i = j and by 0 if i # j,
\* so that the matrix of the call and the matrix handed to the reducer
\* contain finite numbers only.
C27_UnusableSimilarityReplaced ==
    (call = "clusterTexts" /\ similarityMatrix # <<>>) =>
        LET vs == CallDocVectors
        IN /\ \A i, q \in 1..Len(similarityMatrix) :
                 /\ cosineSimilarityOfObjects(vs[i], vs[q]).t # "fin" =>
                       similarityMatrix[i][q] = (IF i = q THEN Fin(1, 1) ELSE Fin(0, 1))
                 /\ similarityMatrix[i][q].t = "fin"
           /\ \A i, q \in 1..Len(mdsMatrix) : mdsMatrix[i][q].t = "fin"

\* a document with the term "length" gave NaN against itself and against
\* another document
C27_Witness ==
    /\ call = "clusterTexts"
    /\ Len(similarityMatrix) >= 2
    /\ LET vs == CallDocVectors
       IN \E i, q \in 1..Len(similarityMatrix) :
             /\ i # q
             /\ cosineSimilarityOfObjects(vs[i], vs[i]) = NaN
             /\ cosineSimilarityOfObjects(vs[i], vs[q]) = NaN
             /\ similarityMatrix[i][i] = Fin(1, 1)
             /\ similarityMatrix[i][q] = Fin(0, 1)

\* C28: in a result of clusterTexts that is not the mock one every point
\* describes one input document: the text of a point is the raw text of
\* the document whose preprocessed form is document point.id of the TF-IDF
\* model, the one that gave the point its coordinates and cluster and whose
\* terms are tallied for the cluster, also when documents are dropped.
C28_PointTextIsItsDocument ==
    (call = "clusterTexts" /\ result.kind = "result" /\ ~CtFallsBack(input)) =>
        LET docs == CtProcessedTexts(CtTexts(input))
        IN \A i \in 1..Len(result.points) :
              preprocessText(result.points[i].text) = docs[result.points[i].id + 1]

\* the same of the calls in which no text is dropped by preprocessing
C28_TextsAlignWhenNoneDropped ==
    (call = "clusterTexts" /\ result.kind = "result" /\ ~CtFallsBack(input)
        /\ Len(CtProcessedTexts(CtTexts(input))) = Len(CtTexts(input))) =>
        LET docs == CtProcessedTexts(CtTexts(input))
        IN \A i \in 1..Len(result.points) :
              preprocessText(result.points[i].text) = docs[result.points[i].id + 1]

----------------------------------------------------------------------------
(* Properties of TextClusteringPage (checked under SpecPage) *)

\* C9: whenever data.textClustering.useVectors is set and processVectorData
\* raises, the page stores as its clustering data a result of
\* clusterTexts(data.rawData), and no error is shown.
C9_FallsBackToClusterTexts ==
    vectorError => (/\ clusteringData \in clusterTexts(pageData.rawData)
                    /\ error = "null")

\* the fallback ran on raw data with documents and gave their clustering
C9_Witness ==
    /\ vectorError
    /\ ~loading
    /\ pageData.useVectors
    /\ clusteringData.kind = "result"
    /\ Len(clusteringData.points) >= 2

\* a result object: computed, or the mock one
IsResultObject(cd) == cd.kind \in {"result", "mock"}

\* C30: whatever the data prop is and whichever branch of the data-loading
\* effect of TextClusteringPage runs or throws, the effect ends with loading
\* false and with the clustering data set to a result object (stored data,
\* a result of processVectorData or of clusterTexts, or mock data).
C30_LoadEndsWithResult ==
    "load" \notin pending => (~loading /\ IsResultObject(clusteringData))

\* processVectorData raised on stored vector data without raw data, and the
\* fallback stored the mock result
C30_Witness ==
    /\ "load" \notin pending
    /\ vectorError
    /\ pageData.rawData = NoArray
    /\ ~loading
    /\ clusteringData.kind = "mock"

----------------------------------------------------------------------------
(* Properties of the projection and of the vectors (checked under SpecFn) *)

TargetsAreOneMinusSimilarity ==
    \A i \in 1..Len(mdsMatrix) : \A q \in (i + 1)..Len(mdsMatrix) :
        MdsTargetDist(mdsMatrix, i, q) = OneMinus(similarityMatrix[i][q])

\* C11: at both call sites of simpleMDS (performTextClustering and
\* clusterTexts) the target distance the projector uses for a pair of
\* documents (i, j) is 1 minus the cosine similarity of documents i and j.
C11_TargetIsOneMinusSimilarity ==
    call \in {"performTextClustering", "clusterTexts"} => TargetsAreOneMinusSimilarity

\* the call site of performTextClustering alone
C11_PerformTextClusteringTargets ==
    call = "performTextClustering" => TargetsAreOneMinusSimilarity

\* performTextClustering projected two documents that share a term and
\* differ
C11_PerformTextClusteringPair ==
    /\ call = "performTextClustering"
    /\ \E i \in 1..Len(mdsMatrix) : \E q \in (i + 1)..Len(mdsMatrix) :
          similarityMatrix[i][q].t = "sqrt"

\* C13: the k that performTextClustering and clusterTexts hand to kmeans
\* never exceeds the number of points they hand to it.
C13_KNeverExceedsPoints ==
    (call \in {"performTextClustering", "clusterTexts"} /\ kmeansArgs.called)
        => kmeansArgs.k <= kmeansArgs.n

\* the call of clusterTexts alone
C13_ClusterTextsK ==
    (call = "clusterTexts" /\ kmeansArgs.called) => kmeansArgs.k <= kmeansArgs.n

\* C14: the cluster count a result reports (clusterCount of clusterTexts
\* and processVectorData, num_clusters of performTextClustering) equals the
\* k of the k-means run that produced its cluster ids, so every point's
\* cluster id is less than the reported count.
C14_ReportedCountIsK ==
    (result.kind = "result" /\ kmeansArgs.called)
        => /\ result.clusterCount = kmeansArgs.k
           /\ \A i \in 1..Len(result.points) :
                 result.points[i].cluster < result.clusterCount

\* the two functions of dataProcessing.js alone
C14_TextResultsReportK ==
    (/\ call \in {"clusterTexts", "performTextClustering"}
     /\ result.kind = "result"
     /\ kmeansArgs.called)
        => /\ result.clusterCount = kmeansArgs.k
           /\ \A i \in 1..Len(result.points) :
                 result.points[i].cluster < result.clusterCount

\* processVectorData: every cluster id is below the reported count
C14_VectorIdsBelowCount ==
    (call = "processVectorData" /\ result.kind = "result")
        => \A i \in 1..Len(result.points) :
              result.points[i].cluster < result.clusterCount

\* the documents the vectors were built from
VectorisedTexts ==
    IF call = "clusterTexts" THEN CtProcessedTexts(CtTexts(input))
    ELSE PtcTexts(PtcRawTexts(input))

VectorsAreVocabularyArrays ==
    \A i \in 1..Len(docVectors) :
        /\ docVectors[i].isArray
        /\ Len(docVectors[i].x) = Len(termsList)
        /\ \A t \in 1..Len(termsList) :
              docVectors[i].x[t] = tfidf(VectorisedTexts, termsList[t], i - 1)

\* C15: every document vector performTextClustering and clusterTexts pass
\* to cosineSimilarity is an array whose length is the vocabulary size
\* termsList.length, position t holding the document's weight for
\* termsList[t].
C15_VectorsSizedToVocabulary ==
    call \in {"performTextClustering", "clusterTexts"} => VectorsAreVocabularyArrays

\* the vectors of performTextClustering alone
C15_PerformTextClusteringVectors ==
    call = "performTextClustering" => VectorsAreVocabularyArrays

C15_PerformTextClusteringVocabulary ==
    /\ call = "performTextClustering"
    /\ Len(docVectors) >= 2
    /\ Len(termsList) >= 2

\* the size a summary reports: count in performTextClustering, size in the
\* other two
SizeOf(summary) == IF call = "performTextClustering" THEN summary.count ELSE summary.size

\* the number of points of the result tagged with cluster id c
Tagged(c) == Cardinality({i \in 1..Len(result.points) : result.points[i].cluster = c})

SizesMatchPoints ==
    /\ SeqSum([q \in 1..Len(result.clusters) |-> SizeOf(result.clusters[q])])
          = Len(result.points)
    /\ \A q \in 1..Len(result.clusters) :
          SizeOf(result.clusters[q]) = Tagged(result.clusters[q].id)

\* a result computed from the input, not the canned one
ComputedResult ==
    /\ result.kind = "result"
    /\ call = "clusterTexts" => ~CtFallsBack(input)

\* C17: in a result of clusterTexts (not the mock one), processVectorData
\* or performTextClustering the sizes of the summaries sum to the number of
\* points, and each summary's size is the number of points tagged with its
\* id.
C17_SizesSumToPoints == ComputedResult => SizesMatchPoints

\* a result with two points in one cluster and a cluster without a point
C17_Witness ==
    /\ ComputedResult
    /\ Len(result.points) >= 2
    /\ \E q \in 1..Len(result.clusters) : SizeOf(result.clusters[q]) >= 2

----------------------------------------------------------------------------
(* Properties of processData (checked under SpecUpload) *)

\* C16: in processData the failure of one analysis (topic modeling,
\* sentiment, time series, text clustering, hallucination detection) does
\* not end the session: its result is null, every later analysis still runs,
\* onDataUpload is called exactly once with the combined results and loading
\* ends false.
C16_AnalysisFailureIsContained ==
    /\ Len(delivered) <= 1
    /\ \A a \in thrown : analysisResults[a] = Null
    /\ thrown # {} => stage # "failed"
    /\ (thrown # {} /\ stage = "done") =>
          /\ Len(delivered) = 1
          /\ ~uploadLoading
          /\ \A a \in thrown : delivered[1][a] = Null
          /\ \A a \in AnalysisNames \ thrown :
                delivered[1][a].kind \in {"result", "vectors"}
          /\ delivered[1].rawData = getTransformedData

\* the clustering failed, the analysis after it ran, the results were handed over
C16_Witness ==
    /\ stage = "done"
    /\ "textClustering" \in thrown
    /\ Len(delivered) = 1
    /\ delivered[1].hallucination = ResultOf("hallucination")

----------------------------------------------------------------------------
(* Properties of the helper functions (checked under SpecPure) *)

\* C12: preprocessText is idempotent: preprocessText(preprocessText(x))
\* equals preprocessText(x) for every text x, with the fallback stemmer and
\* tokenizer in use.
C12_PreprocessIdempotent ==
    (applied = "preprocessText" /\ Len(value) = 2) => value[2] = value[1]

\* a point of simpleMDS: a defined array of two numbers
FiniteMdsPoint(pt) == pt.def /\ Len(pt.x) = 2 /\ \A d \in 1..2 : pt.x[d] \in Int

\* a point of tSNEProjection: two finite numbers
FiniteTsnePoint(pt) == Len(pt) = 2 /\ \A d \in 1..2 : pt[d].t = "fin"

\* C18: simpleMDS and tSNEProjection return the empty list for no input
\* point and exactly one point with finite coordinates for one input point.
C18_ProjectionsTolerateFewPoints ==
    /\ (applied = "simpleMDS" /\ Len(args.distanceMatrix) = 0) => value[1] = <<>>
    /\ (applied = "simpleMDS" /\ Len(args.distanceMatrix) = 1) =>
          Len(value[1]) = 1 /\ FiniteMdsPoint(value[1][1])
    /\ (applied = "tSNEProjection" /\ Len(args.vectors.items) = 0) => value[1] = <<>>
    /\ (applied = "tSNEProjection" /\ Len(args.vectors.items) = 1) =>
          Len(value[1]) = 1 /\ FiniteTsnePoint(value[1][1])

\* tSNEProjection was applied to one vector, and a missing one at that
C18_Witness ==
    /\ applied = "tSNEProjection"
    /\ Len(args.vectors.items) = 1
    /\ args.vectors.items[1] = Missing
    /\ args.random[1] = <<1, 0>>
    /\ Len(value[1]) = 1

ZeroNorm(vec) == \A i \in 1..Len(vec) : vec[i].num = 0

\* C19: cosineSimilarity returns 0, never NaN, whenever one of its
\* arguments, or both, has zero norm (all components 0).
C19_ZeroNormGivesZero ==
    (applied = "cosineSimilarity" /\ (ZeroNorm(args.vecA) \/ ZeroNorm(args.vecB)))
        => value[1] = Ratio(0, 1)

\* both arguments are zero vectors with an axis
C19_Witness ==
    /\ applied = "cosineSimilarity"
    /\ Len(args.vecA) >= 1
    /\ ZeroNorm(args.vecA)
    /\ ZeroNorm(args.vecB)
    /\ value[1] = Ratio(0, 1)

\* the pair of the update lies closer than 1e-6
PairTooClose == RatioLess(EmbeddingDist(args.points[args.i], args.points[args.j]), MdsEpsilon)

\* C24: the update of simpleMDS for a pair (i, j) changes only the points i
\* and j, by equal and opposite amounts on every axis, so that p_i + p_j is
\* unchanged; when the pair's embedding distance is below 1e-6 no point
\* changes.
C24_PairUpdateKeepsCentre ==
    applied = "mdsPairUpdate" =>
        /\ \A m \in 1..Len(args.points) :
              m \notin {args.i, args.j} => value[1][m] = args.points[m]
        /\ \A d \in 1..2 :
              /\ RatioSub(value[1][args.i][d], args.points[args.i][d])
                    = RatioNeg(RatioSub(value[1][args.j][d], args.points[args.j][d]))
              /\ RatioAdd(value[1][args.i][d], value[1][args.j][d])
                    = RatioAdd(args.points[args.i][d], args.points[args.j][d])
        /\ PairTooClose => value[1] = args.points

\* a pair on a diagonal of the rectangle moved on both axes, a third point
\* stayed
C24_Witness ==
    /\ applied = "mdsPairUpdate"
    /\ Len(args.points) = 3
    /\ \A d \in 1..2 : value[1][args.i][d] # args.points[args.i][d]
    /\ \A d \in 1..2 : value[1][args.j][d] # args.points[args.j][d]

\* a pair closer than 1e-6 and not coincident was skipped
C24_SkippedPair ==
    /\ applied = "mdsPairUpdate"
    /\ PairTooClose
    /\ args.points[args.i] # args.points[args.j]

InTsneLoop == applied = "tSNELoop" /\ applied' = "tSNELoop"

\* C25: in tSNEProjection with N iterations the affinities are multiplied
\* by 12 exactly in the iterations with iter < N / 5 and by 1 in every later
\* one; once the factor is 1 it never returns to 12.
C25_EarlyExaggerationOnly ==
    /\ [][InTsneLoop =>
            /\ (value[1].iter * 5 < args.iterations => value'[1].exaggeration = 12)
            /\ (value[1].iter * 5 >= args.iterations => value'[1].exaggeration = 1)]_vars
    /\ [][(InTsneLoop /\ value[1].exaggeration = 1) => value'[1].exaggeration = 1]_vars

\* a run of 6 iterations used 12 in its first two iterations and is past
\* its fourth with factor 1
C25_Witness ==
    /\ applied = "tSNELoop"
    /\ args.iterations = 6
    /\ value[1].iter = 4
    /\ value[1].exaggeration = 1

\* every point of pts has the same coordinate on axis d
SharedAxis(pts, d) == \A a, b \in 1..Len(pts) : pts[a][d] = pts[b][d]

\* C26: tSNEProjection normalises the points in the iterations with
\* iter % 50 = 0 and once more after the last iteration, so that a
\* normalisation is the last operation before it returns; a normalisation
\* never divides by zero: on an axis on which all points share a value
\* every point gets 0, and no coordinate is NaN or infinite.
C26_NormalisedOnSchedule ==
    /\ [][InTsneLoop =>
            (value'[1].last = "normalize" <=> value[1].iter % 50 = 0)]_vars
    /\ [](applied = "tSNEReturned" => value[1].last = "normalize")
    /\ []((applied \in {"tSNELoop", "tSNEReturned"} /\ value[1].last = "normalize") =>
            \A d \in 1..2 :
               /\ \A m \in 1..Len(value[1].points) : value[1].points[m][d].t \notin {"nan", "inf"}
               /\ SharedAxis(value[1].raw, d) =>
                     \A m \in 1..Len(value[1].points) : value[1].points[m][d] = Ratio(0, 1))

\* a run of 6 iterations returned two points that shared their second
\* coordinate after the last update and differ in the first
C26_Witness ==
    /\ applied = "tSNEReturned"
    /\ args.iterations = 6
    /\ value[1].raw = <<<<1, 0>>, <<-1, 0>>>>
    /\ value[1].points = <<<<Ratio(1, 1), Ratio(0, 1)>>, <<Ratio(-1, 1), Ratio(0, 1)>>>>

\* the iteration with iter = 50 ended with a normalisation of coincident
\* points
C26_FiftiethIteration ==
    /\ applied = "tSNELoop"
    /\ value[1].iter = 51
    /\ value[1].last = "normalize"
    /\ value[1].raw = <<<<0, 0>>, <<0, 0>>>>

====
